---- MODULE Spec2Model ----
(***************************************************************************)
(* Model of package ctypb of github.com/zclconf/go-cty-protobuf: the       *)
(* bridge between protocol buffers messages and cty values.                *)
(*                                                                         *)
(*   ImpliedTypeForMessageDesc   message descriptor -> cty type            *)
(*   FromProtobufMessage         message            -> cty value           *)
(*   ToProtobufMessage           cty value          -> message             *)
(*                                                                         *)
(* Representation.                                                         *)
(*   string values   sequences of one-character strings, <<"h","i">>       *)
(*   byte strings    sequences of numbers in 0..255                        *)
(*   integers        Int                                                   *)
(*   floats          dyadic rationals counted in halves (3 is 1.5)         *)
(*   cty.Number      [ty, h]: the number h/2, so that an integer kind and  *)
(*                   a floating kind convert to the same Number            *)
(*   cty types       [k |-> "Bool"], ..., [k |-> "Object", attrs |-> f],   *)
(*                   [k |-> "List", e |-> t], likewise "Map" and "Set"     *)
(*   cty values      a record with its type ty and one payload field named *)
(*                   after its shape (b, h, s, attrs, l, m, set, null)     *)
(*   descriptors     records of the message table Messages, which fields   *)
(*                   name by their full name as field.Message() does       *)
(*   messages        a function from field name to [has, v]: what          *)
(*                   msg.Has(field) and msg.Get(field) answer              *)
(***************************************************************************)
EXTENDS Integers, Sequences, FiniteSets, TLC

VARIABLES desc, msg, ty, val, back, dec, walk

vars == <<desc, msg, ty, val, back, dec, walk>>

(***************************************************************************)
(* Bounds of the explored inputs.                                          *)
(***************************************************************************)
\* the size of a message: its set fields, list elements and map entries,
\* those of its nested messages included
MaxSize == 2

(***************************************************************************)
(* protoreflect.Kind, by the names Kind.String() gives.                    *)
(***************************************************************************)
SignedKinds == {"int32", "sint32", "sfixed32", "int64", "sint64", "sfixed64"}

UnsignedKinds == {"uint32", "fixed32", "uint64", "fixed64"}

FloatKinds == {"float", "double"}

NumericKinds == SignedKinds \cup UnsignedKinds \cup FloatKinds

MessageKinds == {"message", "group"}

Kinds == {"bool", "string", "bytes", "enum"} \cup NumericKinds \cup MessageKinds

(***************************************************************************)
(* Field descriptors, as the schema language declares them.                *)
(***************************************************************************)
Field(number, name, kind, cardinality, hasPresence, oneof, message, enum) ==
    [number |-> number, name |-> name, kind |-> kind,
     cardinality |-> cardinality, hasPresence |-> hasPresence,
     oneof |-> oneof, message |-> message, enum |-> enum]

\* `string t_string = 14;` in proto3: singular, no presence tracking
Implicit(number, name, kind) ==
    Field(number, name, kind, "optional", FALSE, "", "", "")

\* `optional string string_opt = 2;`
Explicit(number, name, kind) ==
    Field(number, name, kind, "optional", TRUE, "", "", "")

\* a member of `oneof t_oneof { ... }`
OneofScalar(number, name, kind, oneof) ==
    Field(number, name, kind, "optional", TRUE, oneof, "", "")

\* `Nested t_message = 16;`: singular messages always track presence
MessageField(number, name, message) ==
    Field(number, name, "message", "optional", TRUE, "", message, "")

OneofMessage(number, name, message, oneof) ==
    Field(number, name, "message", "optional", TRUE, oneof, message, "")

\* `Things t_enum = 2;`
EnumField(number, name, enum) ==
    Field(number, name, "enum", "optional", FALSE, "", "", enum)

\* `optional Things t_enum_opt = 1;`
ExplicitEnum(number, name, enum) ==
    Field(number, name, "enum", "optional", TRUE, "", "", enum)

\* `repeated string t_strings = 1;`
Repeated(number, name, kind) ==
    Field(number, name, kind, "repeated", FALSE, "", "", "")

\* `repeated Nested t_message = 2;` and `map<K, V> name = n;`, which is a
\* repeated field of the synthesized map entry message
RepeatedMessage(number, name, message) ==
    Field(number, name, "message", "repeated", FALSE, "", message, "")

RepeatedEnum(number, name, enum) ==
    Field(number, name, "enum", "repeated", FALSE, "", "", enum)

\* a proto2 `optional group Grp = n { ... }`
GroupField(number, name, message) ==
    Field(number, name, "group", "optional", TRUE, "", message, "")

Message(fields) == [fields |-> fields, isMapEntry |-> FALSE]

\* the entry message protoc synthesizes for map<K, V>: key = 1, value = 2
MapEntry(key, value) == [fields |-> <<key, value>>, isMapEntry |-> TRUE]

(***************************************************************************)
(* Enum descriptors: the declared values in declaration order.             *)
(***************************************************************************)
Enums ==
    [Things |-> << [name |-> <<"A">>, number |-> 0],
                   [name |-> <<"b">>, number |-> 1],
                   [name |-> <<"C">>, number |-> 2],
                   [name |-> <<"d">>, number |-> 3] >>]

(***************************************************************************)
(* Message descriptors by full name.  The first group is testproto.proto;  *)
(* Extra and Deep add the field shapes testproto.proto lacks: enums in     *)
(* collections, bool and unsigned map keys, a oneof of messages, a group   *)
(* and a third level of nesting; Odd and Odder hold fields of no declared  *)
(* kind.                                                                   *)
(***************************************************************************)
TestProto ==
    "Assorted" :> Message(<<
        Implicit(1, "t_double", "double"),
        Implicit(2, "t_float", "float"),
        Implicit(3, "t_int32", "int32"),
        Implicit(4, "t_int64", "int64"),
        Implicit(5, "t_uint32", "uint32"),
        Implicit(6, "t_uint64", "uint64"),
        Implicit(7, "t_sint32", "sint32"),
        Implicit(8, "t_sint64", "sint64"),
        Implicit(9, "t_fixed32", "fixed32"),
        Implicit(10, "t_fixed64", "fixed64"),
        Implicit(11, "t_sfixed32", "sfixed32"),
        Implicit(12, "t_sfixed64", "sfixed64"),
        Implicit(13, "t_bool", "bool"),
        Implicit(14, "t_string", "string"),
        Implicit(15, "t_bytes", "bytes"),
        MessageField(16, "t_message", "Assorted.Nested") >>)
    @@ "Assorted.Nested" :> Message(<<
        Implicit(1, "t_nested_field", "string") >>)
    @@ "WithOptional" :> Message(<<
        Implicit(1, "string_req", "string"),
        Explicit(2, "string_opt", "string"),
        Implicit(3, "int32_req", "int32"),
        Explicit(4, "int32_opt", "int32"),
        MessageField(5, "message_req", "WithOptional.Nested"),
        MessageField(6, "message_opt", "WithOptional.Nested") >>)
    @@ "WithOptional.Nested" :> Message(<< >>)
    @@ "WithOneOf" :> Message(<<
        Implicit(1, "outside", "string"),
        OneofScalar(2, "a", "string", "t_oneof"),
        OneofScalar(3, "b", "string", "t_oneof") >>)
    @@ "WithRepeated" :> Message(<<
        Repeated(1, "t_strings", "string"),
        RepeatedMessage(2, "t_message", "WithRepeated.Nested"),
        RepeatedMessage(3, "t_map_string_bool", "WithRepeated.TMapStringBoolEntry"),
        RepeatedMessage(4, "t_map_number_bool", "WithRepeated.TMapNumberBoolEntry"),
        RepeatedMessage(5, "t_map_string_message", "WithRepeated.TMapStringMessageEntry"),
        RepeatedMessage(6, "t_map_number_message", "WithRepeated.TMapNumberMessageEntry") >>)
    @@ "WithRepeated.Nested" :> Message(<<
        Implicit(1, "t_nested_field", "string") >>)
    @@ "WithRepeated.TMapStringBoolEntry" :> MapEntry(
        Implicit(1, "key", "string"), Implicit(2, "value", "bool"))
    @@ "WithRepeated.TMapNumberBoolEntry" :> MapEntry(
        Implicit(1, "key", "int64"), Implicit(2, "value", "bool"))
    @@ "WithRepeated.TMapStringMessageEntry" :> MapEntry(
        Implicit(1, "key", "string"), MessageField(2, "value", "WithRepeated.Nested"))
    @@ "WithRepeated.TMapNumberMessageEntry" :> MapEntry(
        Implicit(1, "key", "int64"), MessageField(2, "value", "WithRepeated.Nested"))
    @@ "WithAny" :> Message(<<
        Implicit(1, "t_string", "string"),
        MessageField(2, "t_any", "google.protobuf.Any"),
        RepeatedMessage(3, "t_any_list", "google.protobuf.Any"),
        RepeatedMessage(4, "t_any_map_string", "WithAny.TAnyMapStringEntry"),
        RepeatedMessage(5, "t_any_map_number", "WithAny.TAnyMapNumberEntry") >>)
    @@ "WithAny.TAnyMapStringEntry" :> MapEntry(
        Implicit(1, "key", "string"), MessageField(2, "value", "google.protobuf.Any"))
    @@ "WithAny.TAnyMapNumberEntry" :> MapEntry(
        Implicit(1, "key", "int64"), MessageField(2, "value", "google.protobuf.Any"))
    @@ "google.protobuf.Any" :> Message(<<
        Implicit(1, "type_url", "string"),
        Implicit(2, "value", "bytes") >>)
    @@ "WithEnum" :> Message(<<
        Implicit(1, "t_string", "string"),
        EnumField(2, "t_enum", "Things") >>)
    @@ "Empty" :> Message(<< >>)
    @@ "Simple" :> Message(<<
        MessageField(1, "foo", "Empty") >>)

MoreProto ==
    "Extra" :> Message(<<
        ExplicitEnum(1, "t_enum_opt", "Things"),
        RepeatedEnum(2, "t_enums", "Things"),
        RepeatedMessage(3, "t_map_string_enum", "Extra.TMapStringEnumEntry"),
        RepeatedMessage(4, "t_map_number_enum", "Extra.TMapNumberEnumEntry"),
        RepeatedMessage(5, "t_map_bool_string", "Extra.TMapBoolStringEntry"),
        OneofMessage(6, "one", "WithOneOf", "choice"),
        OneofScalar(7, "raw", "bytes", "choice") >>)
    @@ "Extra.TMapStringEnumEntry" :> MapEntry(
        Implicit(1, "key", "string"), EnumField(2, "value", "Things"))
    @@ "Extra.TMapNumberEnumEntry" :> MapEntry(
        Implicit(1, "key", "int64"), EnumField(2, "value", "Things"))
    @@ "Extra.TMapBoolStringEntry" :> MapEntry(
        Implicit(1, "key", "bool"), Implicit(2, "value", "string"))
    @@ "Deep" :> Message(<<
        MessageField(1, "simple", "Simple"),
        RepeatedMessage(2, "opts", "WithOptional"),
        RepeatedMessage(3, "by_id", "Deep.ByIdEntry"),
        GroupField(4, "grp", "WithEnum"),
        Implicit(5, "flag", "bool") >>)
    @@ "Deep.ByIdEntry" :> MapEntry(
        Implicit(1, "key", "uint32"), MessageField(2, "value", "WithEnum"))

\* Kind.String() of a number that is none of the declared kinds
UnknownKind(n) == IF n = 0 THEN "<unknown:0>" ELSE "<unknown:19>"

\* descriptors whose fields answer Kind() with such a number, past fields of
\* declared kinds and within a list, a map keyed by string and a map keyed
\* by int64; in Late past a list of messages and a message
OddProto ==
    "Odd" :> Message(<<
        Implicit(1, "flag", "bool"),
        RepeatedMessage(2, "items", "Odd.Item"),
        Implicit(3, "bad", UnknownKind(0)) >>)
    @@ "Odd.Item" :> Message(<<
        Implicit(1, "name", "string"),
        RepeatedMessage(2, "by_name", "Odd.Item.ByNameEntry") >>)
    @@ "Odd.Item.ByNameEntry" :> MapEntry(
        Implicit(1, "key", "string"), MessageField(2, "value", "Odd.Leaf"))
    @@ "Odd.Leaf" :> Message(<<
        Implicit(1, "t_string", "string"),
        Implicit(2, "bad", UnknownKind(0)),
        Implicit(3, "worse", UnknownKind(19)) >>)
    @@ "Odder" :> Message(<<
        RepeatedMessage(1, "by_id", "Odder.ByIdEntry"),
        MessageField(2, "leaf", "Odd.Leaf") >>)
    @@ "Odder.ByIdEntry" :> MapEntry(
        Implicit(1, "key", "int64"), MessageField(2, "value", "Odd.Leaf"))
    @@ "Late" :> Message(<<
        RepeatedMessage(1, "rows", "WithRepeated.Nested"),
        MessageField(2, "first", "WithRepeated.Nested"),
        Implicit(3, "bad", UnknownKind(0)) >>)

Messages == TestProto @@ MoreProto @@ OddProto

\* the descriptors a caller passes in: every declared message type
Roots == {d \in DOMAIN Messages : ~Messages[d].isMapEntry}

(***************************************************************************)
(* protoreflect descriptor queries.                                        *)
(***************************************************************************)
\* FieldDescriptors.ByNumber
ByNumber(fields, n) ==
    fields[CHOOSE i \in 1..Len(fields) : fields[i].number = n]

\* FieldDescriptor.IsMap
IsMap(field) ==
    /\ field.cardinality = "repeated"
    /\ field.kind = "message"
    /\ Messages[field.message].isMapEntry

\* FieldDescriptor.IsList
IsList(field) == field.cardinality = "repeated" /\ ~IsMap(field)

\* EnumValueDescriptors.ByNumber: the first declared value with the number,
\* or nil
HasEnumNumber(enum, num) ==
    \E i \in 1..Len(Enums[enum]) : Enums[enum][i].number = num

EnumByNumber(enum, num) ==
    LET values == Enums[enum]
        first == CHOOSE i \in 1..Len(values) :
                    /\ values[i].number = num
                    /\ \A j \in 1..(i - 1) : values[j].number # num
    IN  values[first]

(***************************************************************************)
(* cty types.                                                              *)
(***************************************************************************)
Bool == [k |-> "Bool"]

Number == [k |-> "Number"]

String == [k |-> "String"]

DynamicPseudoType == [k |-> "DynamicPseudoType"]

NilType == [k |-> "NilType"]

Object(atys) == [k |-> "Object", attrs |-> atys]

List(ety) == [k |-> "List", e |-> ety]

Map(ety) == [k |-> "Map", e |-> ety]

Set(ety) == [k |-> "Set", e |-> ety]

(***************************************************************************)
(* cty values.  A constructor that panics in cty (a collection of          *)
(* elements of differing types, or of none) yields Panic.                  *)
(***************************************************************************)
Nil == [nil |-> TRUE]

NilVal == [ty |-> NilType, nil |-> TRUE]

Panic == [panic |-> TRUE]

IsPanic(v) == "panic" \in DOMAIN v

True == [ty |-> Bool, b |-> TRUE]

False == [ty |-> Bool, b |-> FALSE]

NumberIntVal(i) == [ty |-> Number, h |-> 2 * i]

NumberUIntVal(u) == [ty |-> Number, h |-> 2 * u]

NumberFloatVal(f) == [ty |-> Number, h |-> f]

StringVal(s) == [ty |-> String, s |-> s]

NullVal(t) == [ty |-> t, null |-> TRUE]

UnknownVal(t) == [ty |-> t, unknown |-> TRUE]

DynamicVal == UnknownVal(DynamicPseudoType)

IsNull(v) == "null" \in DOMAIN v

ObjectVal(attrs) ==
    [ty |-> Object([n \in DOMAIN attrs |-> attrs[n].ty]), attrs |-> attrs]

ListVal(elems) ==
    IF \/ Len(elems) = 0
       \/ \E i \in 1..Len(elems) : elems[i].ty # elems[1].ty
    THEN Panic
    ELSE [ty |-> List(elems[1].ty), l |-> elems]

ListValEmpty(ety) == [ty |-> List(ety), l |-> << >>]

MapVal(elems) ==
    IF \/ DOMAIN elems = {}
       \/ \E j, key \in DOMAIN elems : elems[j].ty # elems[key].ty
    THEN Panic
    ELSE [ty |-> Map(elems[CHOOSE key \in DOMAIN elems : TRUE].ty), m |-> elems]

MapValEmpty(ety) == [ty |-> Map(ety), m |-> << >>]

SetVal(elems) ==
    IF \/ Len(elems) = 0
       \/ \E i \in 1..Len(elems) : elems[i].ty # elems[1].ty
    THEN Panic
    ELSE [ty |-> Set(elems[1].ty), set |-> {elems[i] : i \in 1..Len(elems)}]

SetValEmpty(ety) == [ty |-> Set(ety), set |-> {}]

(***************************************************************************)
(* cty.Path and cty.PathError.                                             *)
(***************************************************************************)
GetAttrStep(name) == [step |-> "GetAttr", name |-> name]

IndexStep(key) == [step |-> "Index", key |-> key]

\* path.NewErrorf("no cty equivalent for protobuf kind %s", kind.String())
UnsupportedKind(path, kind) ==
    [format |-> "no cty equivalent for protobuf kind %s", kind |-> kind,
     path |-> path]

\* path.NewErrorf("value %d is not part of the enumeration", num)
InvalidEnumValue(path, num) ==
    [format |-> "value %d is not part of the enumeration", num |-> num,
     path |-> path]

(***************************************************************************)
(* base64.StdEncoding.EncodeToString: three bytes to four characters of    *)
(* the standard alphabet, the last group padded with "=".                  *)
(***************************************************************************)
Base64Alphabet ==
    << "A", "B", "C", "D", "E", "F", "G", "H", "I", "J", "K", "L", "M",
       "N", "O", "P", "Q", "R", "S", "T", "U", "V", "W", "X", "Y", "Z",
       "a", "b", "c", "d", "e", "f", "g", "h", "i", "j", "k", "l", "m",
       "n", "o", "p", "q", "r", "s", "t", "u", "v", "w", "x", "y", "z",
       "0", "1", "2", "3", "4", "5", "6", "7", "8", "9", "+", "/" >>

Base64Char(sextet) == Base64Alphabet[sextet + 1]

RECURSIVE EncodeToString(_)
\* EncodeToString without the padding of the last group, as
\* base64.RawStdEncoding writes it
EncodeToString_raw(src) ==
    IF Len(src) = 0 THEN << >>
    ELSE IF Len(src) = 1 THEN
        LET v == src[1] * 65536
        IN  << Base64Char(v \div 262144), Base64Char((v \div 4096) % 64) >>
    ELSE IF Len(src) = 2 THEN
        LET v == src[1] * 65536 + src[2] * 256
        IN  << Base64Char(v \div 262144), Base64Char((v \div 4096) % 64),
               Base64Char((v \div 64) % 64) >>
    ELSE
        LET v == src[1] * 65536 + src[2] * 256 + src[3]
        IN  << Base64Char(v \div 262144), Base64Char((v \div 4096) % 64),
               Base64Char((v \div 64) % 64), Base64Char(v % 64) >>
            \o EncodeToString(SubSeq(src, 4, Len(src)))

EncodeToString(src) ==
    IF Len(src) = 0 THEN << >>
    ELSE IF Len(src) = 1 THEN
        LET v == src[1] * 65536
        IN  << Base64Char(v \div 262144), Base64Char((v \div 4096) % 64),
               "=", "=" >>
    ELSE IF Len(src) = 2 THEN
        LET v == src[1] * 65536 + src[2] * 256
        IN  << Base64Char(v \div 262144), Base64Char((v \div 4096) % 64),
               Base64Char((v \div 64) % 64), "=" >>
    ELSE
        LET v == src[1] * 65536 + src[2] * 256 + src[3]
        IN  << Base64Char(v \div 262144), Base64Char((v \div 4096) % 64),
               Base64Char((v \div 64) % 64), Base64Char(v % 64) >>
            \o EncodeToString(SubSeq(src, 4, Len(src)))

(***************************************************************************)
(* implied_type.go                                                         *)
(***************************************************************************)
RECURSIVE impliedTypeForMessageDesc(_, _)
RECURSIVE impliedTypeForFields(_, _, _, _)
RECURSIVE impliedTypeForFieldDesc(_, _)
RECURSIVE impliedTypeForFieldKind(_, _)

\* the result bound by r, err := call: written r \in {call} and read through
\* Only, the one call is computed once however often r is read
Only(S) == CHOOSE r \in S : TRUE

\* return cty.NilType, err
NoType(err) == [ty |-> NilType, err |-> err]

\* return ty, nil
Type(t) == [ty |-> t, err |-> Nil]

\* impliedTypeForFields giving one attribute per oneof: the members after
\* the first get none
impliedTypeForFields_perOneof(fields, i, atys, path) ==
    IF i > Len(fields)
    THEN Type(Object(atys))
    ELSE LET field == fields[i]
             name == field.name
             fpath == Append(path, GetAttrStep(name))
         IN  IF field.oneof # "" /\ \E j \in 1..(i - 1) : fields[j].oneof = field.oneof
             THEN impliedTypeForFields(fields, i + 1, atys, path)
             ELSE Only({IF aty.err # Nil
                        THEN NoType(aty.err)
                        ELSE impliedTypeForFields(
                                fields, i + 1, (name :> aty.ty) @@ atys, path) :
                        aty \in {impliedTypeForFieldDesc(field, fpath)}})

\* the loop of impliedTypeForMessageDesc from field i on, atys so far
impliedTypeForFields(fields, i, atys, path) ==
    IF i > Len(fields)
    THEN Type(Object(atys))
    ELSE LET field == fields[i]
             name == field.name
             fpath == Append(path, GetAttrStep(name))
         IN  Only({IF aty.err # Nil
                   THEN NoType(aty.err)
                   ELSE impliedTypeForFields(
                            fields, i + 1, (name :> aty.ty) @@ atys, path) :
                   aty \in {impliedTypeForFieldDesc(field, fpath)}})

impliedTypeForMessageDesc(d, path) ==
    impliedTypeForFields(Messages[d].fields, 1, << >>, path)

\* impliedTypeForFieldDesc without the case of keys that are not strings:
\* every map gives a Map
impliedTypeForFieldDesc_alwaysMap(field, path) ==
    LET isRepeated == field.cardinality = "repeated"
    IN  IF /\ isRepeated
           /\ field.kind = "message"
           /\ Messages[field.message].isMapEntry
        THEN
            Only({IF valTy.err # Nil THEN NoType(valTy.err) ELSE Type(Map(valTy.ty)) :
                  valTy \in {impliedTypeForFieldDesc(
                                ByNumber(Messages[field.message].fields, 2),
                                Append(path, IndexStep(UnknownVal(String))))}})
        ELSE
            Only({IF aty.err # Nil
                  THEN NoType(aty.err)
                  ELSE IF isRepeated
                  THEN Type(List(aty.ty))
                  ELSE Type(aty.ty) :
                  aty \in {impliedTypeForFieldKind(field, path)}})

impliedTypeForFieldDesc(field, path) ==
    LET isRepeated == field.cardinality = "repeated"
    IN  IF /\ isRepeated
           /\ field.kind = "message"
           /\ Messages[field.message].isMapEntry
        THEN
            LET subFields == Messages[field.message].fields
                keyField == ByNumber(subFields, 1)
                valField == ByNumber(subFields, 2)
            IN  IF keyField.kind = "string"
                THEN
                    Only({IF valTy.err # Nil
                          THEN NoType(valTy.err)
                          ELSE Type(Map(valTy.ty)) :
                          valTy \in {impliedTypeForFieldDesc(
                                        valField,
                                        Append(path, IndexStep(UnknownVal(String))))}})
                ELSE
                    Only({IF keyTy.err # Nil
                          THEN NoType(keyTy.err)
                          ELSE Only({IF valTy.err # Nil
                                     THEN NoType(valTy.err)
                                     ELSE Type(Set(Object([key |-> keyTy.ty,
                                                           value |-> valTy.ty]))) :
                                     valTy \in {impliedTypeForFieldDesc(
                                                    valField,
                                                    Append(path,
                                                           IndexStep(UnknownVal(keyTy.ty))))}}) :
                          keyTy \in {impliedTypeForFieldDesc(keyField, path)}})
        ELSE
            Only({IF aty.err # Nil
                  THEN NoType(aty.err)
                  ELSE IF isRepeated
                  THEN Type(List(aty.ty))
                  ELSE Type(aty.ty) :
                  aty \in {impliedTypeForFieldKind(field, path)}})

\* impliedTypeForFieldKind with the enum kind among the numbers
impliedTypeForFieldKind_enumNumber(field, path) ==
    LET kind == field.kind
    IN  CASE kind = "bool" -> Type(Bool)
          [] kind \in NumericKinds \cup {"enum"} -> Type(Number)
          [] kind \in {"string", "bytes"} -> Type(String)
          [] kind \in {"message", "group"} ->
                impliedTypeForMessageDesc(field.message, path)
          [] OTHER -> NoType(UnsupportedKind(path, kind))

\* impliedTypeForFieldKind taking an envelope for a value of any type
impliedTypeForFieldKind_anyDynamic(field, path) ==
    LET kind == field.kind
    IN  CASE kind = "bool" -> Type(Bool)
          [] kind \in NumericKinds -> Type(Number)
          [] kind \in {"string", "bytes", "enum"} -> Type(String)
          [] kind \in {"message", "group"} ->
                IF field.message = "google.protobuf.Any"
                THEN Type(DynamicPseudoType)
                ELSE impliedTypeForMessageDesc(field.message, path)
          [] OTHER -> NoType(UnsupportedKind(path, kind))

\* impliedTypeForFieldKind without the default case: a kind it does not
\* know reads as a string
impliedTypeForFieldKind_unknownAsString(field, path) ==
    LET kind == field.kind
    IN  CASE kind = "bool" -> Type(Bool)
          [] kind \in NumericKinds -> Type(Number)
          [] kind \in {"string", "bytes", "enum"} -> Type(String)
          [] kind \in {"message", "group"} ->
                impliedTypeForMessageDesc(field.message, path)
          [] OTHER -> Type(String)

impliedTypeForFieldKind(field, path) ==
    LET kind == field.kind
    IN  CASE kind = "bool" -> Type(Bool)
          [] kind \in {"int32", "sint32", "uint32", "int64", "sint64", "uint64",
                       "sfixed32", "fixed32", "float", "sfixed64", "fixed64",
                       "double"} -> Type(Number)
          [] kind \in {"string", "bytes", "enum"} -> Type(String)
          [] kind \in {"message", "group"} ->
                impliedTypeForMessageDesc(field.message, path)
          [] OTHER -> NoType(UnsupportedKind(path, kind))

ImpliedTypeForMessageDesc(d) ==
    LET path == << >>
    IN  impliedTypeForMessageDesc(d, path)

(***************************************************************************)
(* protoreflect.Message: msg.Descriptor(), msg.Has(field), msg.Get(field). *)
(***************************************************************************)
Descriptor(m) == Messages[m.desc]

Has(m, field) == m.fields[field.name].has

Get(m, field) == m.fields[field.name].v

(***************************************************************************)
(* protoreflect.Map.Range visits the entries in no specified order.  The   *)
(* map keys of the explored messages, and the orders ord in which one call *)
(* may visit them.                                                         *)
(***************************************************************************)
StrKeys == << <<"a">>, <<"b">> >>

IntKeys == <<1, 2>>

BoolKeys == <<FALSE, TRUE>>

KeyClass(keyField) ==
    CASE keyField.kind = "string" -> "str"
      [] keyField.kind = "bool" -> "bool"
      [] OTHER -> "int"

Keys(keyField) ==
    CASE keyField.kind = "string" -> StrKeys
      [] keyField.kind = "bool" -> BoolKeys
      [] OTHER -> IntKeys

Reverse(s) == [i \in 1..Len(s) |-> s[Len(s) + 1 - i]]

\* one call visits the keys forwards or backwards: every order of the
\* entries of any one map
RangeOrders ==
    {[str |-> StrKeys, int |-> IntKeys, bool |-> BoolKeys],
     [str |-> Reverse(StrKeys), int |-> Reverse(IntKeys), bool |-> Reverse(BoolKeys)]}

Range(rawMap, keyField, ord) ==
    SelectSeq(ord[KeyClass(keyField)], LAMBDA key : key \in DOMAIN rawMap)

(***************************************************************************)
(* from_pb_msg.go                                                          *)
(***************************************************************************)
RECURSIVE fromProtobufMessage(_, _, _)
RECURSIVE fromProtobufFields(_, _, _, _, _)
RECURSIVE fromProtobufFieldValue(_, _, _, _)
RECURSIVE fromProtobufStringMap(_, _, _, _, _, _, _)
RECURSIVE fromProtobufOtherMap(_, _, _, _, _, _, _, _)
RECURSIVE fromProtobufList(_, _, _, _, _, _)
RECURSIVE fromProtobufFieldKindValue(_, _, _, _)

\* a callee that returned an error, or that panicked
Aborted(r) == r.err # Nil \/ IsPanic(r.v)

Return(v) == [v |-> v, err |-> Nil]

Fail(err) == [v |-> NilVal, err |-> err]

\* fromProtobufFields with the null of an unset field left untyped
fromProtobufFields_untypedNull(m, i, attrs, path, ord) ==
    LET fields == Descriptor(m).fields
    IN  IF i > Len(fields)
        THEN Return(ObjectVal(attrs))
        ELSE
            LET field == fields[i]
                name == field.name
                fpath == Append(path, GetAttrStep(name))
            IN  IF field.hasPresence /\ ~Has(m, field)
                THEN
                    Only({IF aty.err # Nil
                          THEN Fail(aty.err)
                          ELSE fromProtobufFields(
                                    m, i + 1, (name :> NullVal(DynamicPseudoType)) @@ attrs,
                                    path, ord) :
                          aty \in {impliedTypeForFieldDesc(field, fpath)}})
                ELSE
                    Only({IF Aborted(v)
                          THEN v
                          ELSE fromProtobufFields(
                                    m, i + 1, (name :> v.v) @@ attrs, path, ord) :
                          v \in {fromProtobufFieldValue(
                                    Get(m, field), field, fpath, ord)}})

\* fromProtobufFields without the test of field.HasPresence()
fromProtobufFields_nullWhenUnset(m, i, attrs, path, ord) ==
    LET fields == Descriptor(m).fields
    IN  IF i > Len(fields)
        THEN Return(ObjectVal(attrs))
        ELSE
            LET field == fields[i]
                name == field.name
                fpath == Append(path, GetAttrStep(name))
            IN  IF ~Has(m, field)
                THEN
                    Only({IF aty.err # Nil
                          THEN Fail(aty.err)
                          ELSE fromProtobufFields(
                                    m, i + 1, (name :> NullVal(aty.ty)) @@ attrs,
                                    path, ord) :
                          aty \in {impliedTypeForFieldDesc(field, fpath)}})
                ELSE
                    Only({IF Aborted(v)
                          THEN v
                          ELSE fromProtobufFields(
                                    m, i + 1, (name :> v.v) @@ attrs, path, ord) :
                          v \in {fromProtobufFieldValue(
                                    Get(m, field), field, fpath, ord)}})

\* fromProtobufFields taking the members of a oneof as fields without presence
fromProtobufFields_oneofZero(m, i, attrs, path, ord) ==
    LET fields == Descriptor(m).fields
    IN  IF i > Len(fields)
        THEN Return(ObjectVal(attrs))
        ELSE
            LET field == fields[i]
                name == field.name
                fpath == Append(path, GetAttrStep(name))
            IN  IF field.hasPresence /\ field.oneof = "" /\ ~Has(m, field)
                THEN
                    Only({IF aty.err # Nil
                          THEN Fail(aty.err)
                          ELSE fromProtobufFields(
                                    m, i + 1, (name :> NullVal(aty.ty)) @@ attrs,
                                    path, ord) :
                          aty \in {impliedTypeForFieldDesc(field, fpath)}})
                ELSE
                    Only({IF Aborted(v)
                          THEN v
                          ELSE fromProtobufFields(
                                    m, i + 1, (name :> v.v) @@ attrs, path, ord) :
                          v \in {fromProtobufFieldValue(
                                    Get(m, field), field, fpath, ord)}})

\* fromProtobufFields going on to the next field after an error, and
\* returning the last error it met
fromProtobufFields_lastError(m, i, attrs, path, ord) ==
    LET fields == Descriptor(m).fields
    IN  IF i > Len(fields)
        THEN Return(ObjectVal(attrs))
        ELSE
            LET field == fields[i]
                name == field.name
                fpath == Append(path, GetAttrStep(name))
            IN  IF field.hasPresence /\ ~Has(m, field)
                THEN
                    Only({IF aty.err # Nil
                          THEN Fail(aty.err)
                          ELSE fromProtobufFields(
                                    m, i + 1, (name :> NullVal(aty.ty)) @@ attrs,
                                    path, ord) :
                          aty \in {impliedTypeForFieldDesc(field, fpath)}})
                ELSE
                    Only({IF Aborted(v)
                          THEN Only({IF Aborted(rest) THEN rest ELSE v :
                                     rest \in {fromProtobufFields(
                                                    m, i + 1, attrs, path, ord)}})
                          ELSE fromProtobufFields(
                                    m, i + 1, (name :> v.v) @@ attrs, path, ord) :
                          v \in {fromProtobufFieldValue(
                                    Get(m, field), field, fpath, ord)}})

\* the loop of fromProtobufMessage from field i on, attrs so far
fromProtobufFields(m, i, attrs, path, ord) ==
    LET fields == Descriptor(m).fields
    IN  IF i > Len(fields)
        THEN Return(ObjectVal(attrs))
        ELSE
            LET field == fields[i]
                name == field.name
                fpath == Append(path, GetAttrStep(name))
            IN  IF field.hasPresence /\ ~Has(m, field)
                THEN
                    Only({IF aty.err # Nil
                          THEN Fail(aty.err)
                          ELSE fromProtobufFields(
                                    m, i + 1, (name :> NullVal(aty.ty)) @@ attrs,
                                    path, ord) :
                          aty \in {impliedTypeForFieldDesc(field, fpath)}})
                ELSE
                    Only({IF Aborted(v)
                          THEN v
                          ELSE fromProtobufFields(
                                    m, i + 1, (name :> v.v) @@ attrs, path, ord) :
                          v \in {fromProtobufFieldValue(
                                    Get(m, field), field, fpath, ord)}})

fromProtobufMessage(m, path, ord) == fromProtobufFields(m, 1, << >>, path, ord)

\* fromProtobufStringMap with the empty map left untyped
fromProtobufStringMap_emptyUntyped(keys, i, rawMap, valField, elems, path, ord) ==
    IF i <= Len(keys)
    THEN
        LET key == keys[i]
        IN  Only({IF Aborted(ev)
                  THEN ev
                  ELSE fromProtobufStringMap(
                            keys, i + 1, rawMap, valField, (key :> ev.v) @@ elems,
                            path, ord) :
                  ev \in {fromProtobufFieldValue(
                            rawMap[key], valField,
                            Append(path, IndexStep(StringVal(key))), ord)}})
    ELSE IF DOMAIN elems = {}
    THEN Return(MapValEmpty(DynamicPseudoType))
    ELSE Return(MapVal(elems))

\* case keyField.Kind() == protoreflect.StringKind: the Range callback on
\* the i-th visited entry, then the lines after Range
fromProtobufStringMap(keys, i, rawMap, valField, elems, path, ord) ==
    IF i <= Len(keys)
    THEN
        LET key == keys[i]
        IN  Only({IF Aborted(ev)
                  THEN ev
                  ELSE fromProtobufStringMap(
                            keys, i + 1, rawMap, valField, (key :> ev.v) @@ elems,
                            path, ord) :
                  ev \in {fromProtobufFieldValue(
                            rawMap[key], valField,
                            Append(path, IndexStep(StringVal(key))), ord)}})
    ELSE IF DOMAIN elems = {}
    THEN 
        Only({IF ety.err # Nil THEN Fail(ety.err) ELSE Return(MapValEmpty(ety.ty)) :
              ety \in {impliedTypeForFieldDesc(
                            valField,
                            Append(path, IndexStep(UnknownVal(String))))}})
    ELSE Return(MapVal(elems))

\* fromProtobufOtherMap keeping the last visited entry only
fromProtobufOtherMap_lastOnly(keys, i, rawMap, keyField, valField, elems, path, ord) ==
    LET ipath == Append(path, IndexStep(DynamicVal))
    IN  IF i <= Len(keys)
        THEN
            LET rawK == keys[i]
            IN  Only({IF Aborted(ek)
                      THEN ek
                      ELSE Only({IF Aborted(ev)
                                 THEN ev
                                 ELSE fromProtobufOtherMap(
                                        keys, i + 1, rawMap, keyField, valField,
                                        <<ObjectVal([key |-> ek.v, value |-> ev.v])>>,
                                        path, ord) :
                                 ev \in {fromProtobufFieldValue(
                                            rawMap[rawK], valField, ipath, ord)}}) :
                      ek \in {fromProtobufFieldValue(rawK, keyField, ipath, ord)}})
        ELSE IF Len(elems) = 0
        THEN
            Only({IF keyTy.err # Nil
                  THEN Fail(keyTy.err)
                  ELSE Only({IF valTy.err # Nil
                             THEN Fail(valTy.err)
                             ELSE Return(SetValEmpty(
                                    Object([key |-> keyTy.ty, value |-> valTy.ty]))) :
                             valTy \in {impliedTypeForFieldDesc(valField, ipath)}}) :
                  keyTy \in {impliedTypeForFieldDesc(keyField, ipath)}})
        ELSE Return(SetVal(elems))

\* default: the Range callback on the i-th visited entry, then the lines
\* after Range
fromProtobufOtherMap(keys, i, rawMap, keyField, valField, elems, path, ord) ==
    LET ipath == Append(path, IndexStep(DynamicVal))
    IN  IF i <= Len(keys)
        THEN
            LET rawK == keys[i]
            IN  Only({IF Aborted(ek)
                      THEN ek
                      ELSE Only({IF Aborted(ev)
                                 THEN ev
                                 ELSE fromProtobufOtherMap(
                                        keys, i + 1, rawMap, keyField, valField,
                                        Append(elems, ObjectVal([key |-> ek.v, value |-> ev.v])),
                                        path, ord) :
                                 ev \in {fromProtobufFieldValue(
                                            rawMap[rawK], valField, ipath, ord)}}) :
                      ek \in {fromProtobufFieldValue(rawK, keyField, ipath, ord)}})
        ELSE IF Len(elems) = 0
        THEN
            Only({IF keyTy.err # Nil
                  THEN Fail(keyTy.err)
                  ELSE Only({IF valTy.err # Nil
                             THEN Fail(valTy.err)
                             ELSE Return(SetValEmpty(
                                    Object([key |-> keyTy.ty, value |-> valTy.ty]))) :
                             valTy \in {impliedTypeForFieldDesc(valField, ipath)}}) :
                  keyTy \in {impliedTypeForFieldDesc(keyField, ipath)}})
        ELSE Return(SetVal(elems))

\* case field.IsList(): the loop from element i on, then the lines after it
fromProtobufList(rawList, i, field, elems, path, ord) ==
    IF i <= Len(rawList)
    THEN
        Only({IF Aborted(ev)
              THEN ev
              ELSE fromProtobufList(
                        rawList, i + 1, field, Append(elems, ev.v), path, ord) :
              ev \in {fromProtobufFieldKindValue(
                        rawList[i], field,
                        Append(path, IndexStep(NumberIntVal(i - 1))), ord)}})
    ELSE IF Len(elems) = 0
    THEN
        Only({IF ety.err # Nil THEN Fail(ety.err) ELSE Return(ListValEmpty(ety.ty)) :
              ety \in {impliedTypeForFieldKind(
                            field, Append(path, IndexStep(UnknownVal(Number))))}})
    ELSE Return(ListVal(elems))

fromProtobufFieldValue(rawV, field, path, ord) ==
    IF IsMap(field)
    THEN
        LET subFields == Messages[field.message].fields
            keyField == ByNumber(subFields, 1)
            valField == ByNumber(subFields, 2)
        IN  IF keyField.kind = "string"
            THEN fromProtobufStringMap(
                    Range(rawV, keyField, ord), 1, rawV, valField, << >>, path, ord)
            ELSE fromProtobufOtherMap(
                    Range(rawV, keyField, ord), 1, rawV, keyField, valField, << >>,
                    path, ord)
    ELSE IF IsList(field)
    THEN fromProtobufList(rawV, 1, field, << >>, path, ord)
    ELSE fromProtobufFieldKindValue(rawV, field, path, ord)

\* fromProtobufFieldKindValue converting a float to an integer, which drops
\* its fraction
fromProtobufFieldKindValue_floatAsInt(rawV, field, path, ord) ==
    LET kind == field.kind
    IN  CASE kind = "bool" -> Return(IF rawV THEN True ELSE False)
          [] kind \in {"int32", "sint32", "sfixed32", "int64", "sint64",
                       "sfixed64"} -> Return(NumberIntVal(rawV))
          [] kind \in {"uint32", "fixed32", "uint64", "fixed64"} ->
                Return(NumberUIntVal(rawV))
          [] kind \in {"float", "double"} -> Return(NumberIntVal(rawV \div 2))
          [] kind = "string" -> Return(StringVal(rawV))
          [] kind = "bytes" -> Return(StringVal(EncodeToString(rawV)))
          [] kind = "enum" ->
                IF ~HasEnumNumber(field.enum, rawV)
                THEN Fail(InvalidEnumValue(path, rawV))
                ELSE Return(StringVal(EnumByNumber(field.enum, rawV).name))
          [] kind \in {"message", "group"} -> fromProtobufMessage(rawV, path, ord)
          [] OTHER -> Fail(UnsupportedKind(path, kind))

\* fromProtobufFieldKindValue without the test for an undeclared enum
\* number, which then reads as the empty name
fromProtobufFieldKindValue_anyEnum(rawV, field, path, ord) ==
    LET kind == field.kind
    IN  CASE kind = "bool" -> Return(IF rawV THEN True ELSE False)
          [] kind \in {"int32", "sint32", "sfixed32", "int64", "sint64",
                       "sfixed64"} -> Return(NumberIntVal(rawV))
          [] kind \in {"uint32", "fixed32", "uint64", "fixed64"} ->
                Return(NumberUIntVal(rawV))
          [] kind \in {"float", "double"} -> Return(NumberFloatVal(rawV))
          [] kind = "string" -> Return(StringVal(rawV))
          [] kind = "bytes" -> Return(StringVal(EncodeToString(rawV)))
          [] kind = "enum" ->
                IF FALSE
                THEN Fail(InvalidEnumValue(path, rawV))
                ELSE Return(StringVal(IF HasEnumNumber(field.enum, rawV)
                                 THEN EnumByNumber(field.enum, rawV).name
                                 ELSE << >>))
          [] kind \in {"message", "group"} -> fromProtobufMessage(rawV, path, ord)
          [] OTHER -> Fail(UnsupportedKind(path, kind))

\* fromProtobufFieldKindValue without the group kind in the case of the
\* messages: a group falls to the default case
fromProtobufFieldKindValue_noGroup(rawV, field, path, ord) ==
    LET kind == field.kind
    IN  CASE kind = "bool" -> Return(IF rawV THEN True ELSE False)
          [] kind \in {"int32", "sint32", "sfixed32", "int64", "sint64",
                       "sfixed64"} -> Return(NumberIntVal(rawV))
          [] kind \in {"uint32", "fixed32", "uint64", "fixed64"} ->
                Return(NumberUIntVal(rawV))
          [] kind \in {"float", "double"} -> Return(NumberFloatVal(rawV))
          [] kind = "string" -> Return(StringVal(rawV))
          [] kind = "bytes" -> Return(StringVal(EncodeToString(rawV)))
          [] kind = "enum" ->
                IF ~HasEnumNumber(field.enum, rawV)
                THEN Fail(InvalidEnumValue(path, rawV))
                ELSE Return(StringVal(EnumByNumber(field.enum, rawV).name))
          [] kind \in {"message"} -> fromProtobufMessage(rawV, path, ord)
          [] OTHER -> Fail(UnsupportedKind(path, kind))

fromProtobufFieldKindValue(rawV, field, path, ord) ==
    LET kind == field.kind
    IN  CASE kind = "bool" -> Return(IF rawV THEN True ELSE False)
          [] kind \in {"int32", "sint32", "sfixed32", "int64", "sint64",
                       "sfixed64"} -> Return(NumberIntVal(rawV))
          [] kind \in {"uint32", "fixed32", "uint64", "fixed64"} ->
                Return(NumberUIntVal(rawV))
          [] kind \in {"float", "double"} -> Return(NumberFloatVal(rawV))
          [] kind = "string" -> Return(StringVal(rawV))
          [] kind = "bytes" -> Return(StringVal(EncodeToString(rawV)))
          [] kind = "enum" ->
                IF ~HasEnumNumber(field.enum, rawV)
                THEN Fail(InvalidEnumValue(path, rawV))
                ELSE Return(StringVal(EnumByNumber(field.enum, rawV).name))
          [] kind \in {"message", "group"} -> fromProtobufMessage(rawV, path, ord)
          [] OTHER -> Fail(UnsupportedKind(path, kind))

FromProtobufMessage(m, ord) ==
    LET path == << >>
    IN  fromProtobufMessage(m, path, ord)

(***************************************************************************)
(* The explored messages: what a caller can build through the generated    *)
(* setters.  A singular field without presence that holds its zero value   *)
(* is unset, a member of a oneof is set only while the others are not, and *)
(* msg.Get of an unset field answers the zero value of its kind.           *)
(***************************************************************************)
BoolValues == {FALSE, TRUE}

SignedValues == {0, -7}

UnsignedValues == {0, 9}

\* 0 and 1.5
FloatValues == {0, 3}

StringValues == {<< >>, <<"h", "i">>}

\* the bytes of "HELLO COMPUTER"
HelloComputer == <<72, 69, 76, 76, 79, 32, 67, 79, 77, 80, 85, 84, 69, 82>>

\* no bytes, the bytes of "HI", and those of "HELLO COMPUTER"
BytesValues == {<< >>, <<72, 73>>, HelloComputer}

\* A, d, and a number Things does not declare
EnumValues == {0, 3, 9}

\* the empty, read-only message msg.Get answers for an unset message field
EmptyMessage(d) == [desc |-> d, fields |-> << >>]

ZeroValue(field) ==
    CASE field.cardinality = "repeated" -> << >>
      [] field.kind = "bool" -> FALSE
      [] field.kind \in NumericKinds \cup {"enum"} -> 0
      [] field.kind \in {"string", "bytes"} -> << >>
      [] field.kind \in MessageKinds -> EmptyMessage(field.message)
      [] OTHER -> 0

Unset(field) == [has |-> FALSE, v |-> ZeroValue(field)]

RECURSIVE InstancesOfSize(_, _)
RECURSIVE FieldsOfSize(_, _, _)
RECURSIVE ListsOfSize(_, _)
RECURSIVE MapsOfSize(_, _, _, _)

\* the values of size c that one element of the field's kind can take: a
\* scalar has size 1, a message one more than its own
Elements(field, c) ==
    IF field.kind \in MessageKinds
    THEN InstancesOfSize(field.message, c - 1)
    ELSE IF c # 1 THEN {}
    ELSE CASE field.kind = "bool" -> BoolValues
           [] field.kind \in SignedKinds -> SignedValues
           [] field.kind \in UnsignedKinds -> UnsignedValues
           [] field.kind \in FloatKinds -> FloatValues
           [] field.kind = "string" -> StringValues
           [] field.kind = "bytes" -> BytesValues
           [] field.kind = "enum" -> EnumValues
           [] OTHER -> {}

\* the lists of size c
ListsOfSize(field, c) ==
    IF c = 0
    THEN {<< >>}
    ELSE UNION {{<<first>> \o rest :
                    first \in Elements(field, c1),
                    rest \in ListsOfSize(field, c - c1)} : c1 \in 1..c}

\* the maps of size c over the keys from the i-th on
MapsOfSize(keys, i, valField, c) ==
    IF i > Len(keys)
    THEN IF c = 0 THEN {<< >>} ELSE {}
    ELSE MapsOfSize(keys, i + 1, valField, c)
         \cup UNION {{(keys[i] :> rawV) @@ rest :
                        rawV \in Elements(valField, c1),
                        rest \in MapsOfSize(keys, i + 1, valField, c - c1)} :
                     c1 \in 1..c}

\* the states of size c >= 1 of a field that is set
Populated(field, c) ==
    IF IsMap(field)
    THEN
        LET subFields == Messages[field.message].fields
            keyField == ByNumber(subFields, 1)
            valField == ByNumber(subFields, 2)
        IN  {[has |-> TRUE, v |-> rawMap] :
                rawMap \in MapsOfSize(Keys(keyField), 1, valField, c)}
    ELSE IF IsList(field)
    THEN {[has |-> TRUE, v |-> rawList] : rawList \in ListsOfSize(field, c)}
    ELSE IF field.hasPresence
    THEN {[has |-> TRUE, v |-> rawV] : rawV \in Elements(field, c)}
    ELSE {[has |-> TRUE, v |-> rawV] : rawV \in Elements(field, c) \ {ZeroValue(field)}}

\* the fields from the i-th on, of size c together
FieldsOfSize(fields, i, c) ==
    IF i > Len(fields)
    THEN IF c = 0 THEN {<< >>} ELSE {}
    ELSE
        LET field == fields[i]
        IN  {(field.name :> Unset(field)) @@ rest :
                rest \in FieldsOfSize(fields, i + 1, c)}
            \cup UNION {{(field.name :> p) @@ rest :
                            p \in Populated(field, c1),
                            rest \in FieldsOfSize(fields, i + 1, c - c1)} :
                        c1 \in 1..c}

\* protobuf keeps at most one member of a oneof set
OneofExclusive(fields, fs) ==
    \A i, j \in 1..Len(fields) :
        /\ i # j
        /\ fields[i].oneof # ""
        /\ fields[i].oneof = fields[j].oneof
        => ~(fs[fields[i].name].has /\ fs[fields[j].name].has)

\* the messages of descriptor d of size c
InstancesOfSize(d, c) ==
    LET fields == Messages[d].fields
    IN  {[desc |-> d, fields |-> fs] :
            fs \in {f \in FieldsOfSize(fields, 1, c) : OneofExclusive(fields, f)}}

\* the messages of descriptor d of size n at most
Instances(d, n) == UNION {InstancesOfSize(d, c) : c \in 0..n}

(***************************************************************************)
(* ToProtobufMessage, the value decoder.  Its tests are in the repository  *)
(* (TestToProtobufMessage) and its code is not: it is modelled from the    *)
(* specification's section 4.3.                                            *)
(***************************************************************************)
\* the bits of the 32-bit and of the 64-bit kinds, scaled down so that the
\* ranges stay within the explored numbers
Bits32 == 4

Bits64 == 5

Bits(kind) ==
    IF kind \in {"int32", "sint32", "sfixed32", "uint32", "fixed32"}
    THEN Bits32
    ELSE Bits64

MinOf(kind) == IF kind \in SignedKinds THEN -(2 ^ (Bits(kind) - 1)) ELSE 0

MaxOf(kind) ==
    IF kind \in SignedKinds THEN 2 ^ (Bits(kind) - 1) - 1 ELSE 2 ^ Bits(kind) - 1

\* the greatest magnitude of the floating kinds, scaled down likewise
MaxFloat(kind) == IF kind = "float" THEN 2 ^ Bits32 ELSE 2 ^ Bits64

OutOfRange(path) == [error |-> "OutOfRange", path |-> path]

InvalidEncoding(path) == [error |-> "InvalidEncoding", path |-> path]

InvalidEnumName(path, name) ==
    [error |-> "InvalidEnumValue", name |-> name, path |-> path]

\* a fresh message of descriptor d: every field unset
New(d) ==
    LET fields == Messages[d].fields
    IN  [desc |-> d,
         fields |-> [name \in {fields[i].name : i \in 1..Len(fields)} |->
                        Unset(CHOOSE f \in {fields[i] : i \in 1..Len(fields)} :
                                f.name = name)]]

\* msg.Clear(field)
Clear(m, field) == [m EXCEPT !.fields[field.name] = Unset(field)]

\* msg.Set(field, rawV) leaving the other members of the oneof of the field
\* as they are
SetField_keepOthers(m, field, rawV) ==
    LET has == field.hasPresence \/ rawV # ZeroValue(field)
    IN  [m EXCEPT !.fields[field.name] = [has |-> has, v |-> rawV]]

\* msg.Set(field, rawV): a field without presence is set when it differs
\* from its zero value, and setting a member of a oneof clears the others
SetField(m, field, rawV) ==
    LET fields == Descriptor(m).fields
        others == {fields[i] : i \in 1..Len(fields)} \ {field}
        cleared == {f.name : f \in {g \in others :
                                        field.oneof # "" /\ g.oneof = field.oneof}}
        has == field.hasPresence \/ rawV # ZeroValue(field)
    IN  [m EXCEPT !.fields =
            [name \in DOMAIN m.fields |->
                IF name = field.name THEN [has |-> has, v |-> rawV]
                ELSE IF name \in cleared
                THEN Unset(CHOOSE f \in others : f.name = name)
                ELSE m.fields[name]]]

Base64Index(c) == (CHOOSE i \in 1..64 : Base64Alphabet[i] = c) - 1

IsBase64Char(c) == \E i \in 1..64 : Base64Alphabet[i] = c

\* base64.StdEncoding.DecodeString: [bytes, ok]
RECURSIVE DecodeString(_)
DecodeString(s) ==
    IF Len(s) = 0 THEN [bytes |-> << >>, ok |-> TRUE]
    ELSE IF Len(s) < 4 THEN [bytes |-> << >>, ok |-> FALSE]
    ELSE
        LET last == Len(s) = 4
            pad == IF last /\ s[4] = "=" THEN IF s[3] = "=" THEN 2 ELSE 1 ELSE 0
            data == 4 - pad
            valid == \A i \in 1..data : IsBase64Char(s[i])
            six(i) == IF i <= data THEN Base64Index(s[i]) ELSE 0
            v == six(1) * 262144 + six(2) * 4096 + six(3) * 64 + six(4)
            bytes == SubSeq(<<v \div 65536, (v \div 256) % 256, v % 256>>, 1, 3 - pad)
            rest == DecodeString(SubSeq(s, 5, Len(s)))
        IN  IF ~valid \/ ~rest.ok
            THEN [bytes |-> << >>, ok |-> FALSE]
            ELSE [bytes |-> bytes \o rest.bytes, ok |-> TRUE]

HasEnumName(enum, name) ==
    \E i \in 1..Len(Enums[enum]) : Enums[enum][i].name = name

EnumByName(enum, name) ==
    Enums[enum][CHOOSE i \in 1..Len(Enums[enum]) : Enums[enum][i].name = name]

RECURSIVE toProtobufMessage(_, _, _)
RECURSIVE toProtobufFields(_, _, _, _)
RECURSIVE toProtobufFieldValue(_, _, _)
RECURSIVE toProtobufStringMap(_, _, _, _, _, _)
RECURSIVE toProtobufOtherMap(_, _, _, _, _)
RECURSIVE toProtobufList(_, _, _, _, _)
RECURSIVE toProtobufFieldKindValue(_, _, _)

Raw(rawV) == [raw |-> rawV, err |-> Nil]

RawFail(err) == [raw |-> Nil, err |-> err]

\* toProtobufFields leaving the field of a null attribute as it is
toProtobufFields_skipNull(v, m, i, path) ==
    LET fields == Descriptor(m).fields
    IN  IF i > Len(fields)
        THEN [m |-> m, err |-> Nil]
        ELSE
            LET field == fields[i]
                av == v.attrs[field.name]
            IN  IF IsNull(av)
                THEN toProtobufFields(v, m, i + 1, path)
                ELSE
                    Only({IF r.err # Nil
                          THEN [m |-> m, err |-> r.err]
                          ELSE toProtobufFields(
                                    v, SetField(m, field, r.raw), i + 1, path) :
                          r \in {toProtobufFieldValue(
                                    av, field,
                                    Append(path, GetAttrStep(field.name)))}})

\* per field, in descriptor order, from field i on
toProtobufFields(v, m, i, path) ==
    LET fields == Descriptor(m).fields
    IN  IF i > Len(fields)
        THEN [m |-> m, err |-> Nil]
        ELSE
            LET field == fields[i]
                av == v.attrs[field.name]
            IN  IF IsNull(av)
                THEN toProtobufFields(v, Clear(m, field), i + 1, path)
                ELSE
                    Only({IF r.err # Nil
                          THEN [m |-> m, err |-> r.err]
                          ELSE toProtobufFields(
                                    v, SetField(m, field, r.raw), i + 1, path) :
                          r \in {toProtobufFieldValue(
                                    av, field,
                                    Append(path, GetAttrStep(field.name)))}})

toProtobufMessage(v, m, path) == toProtobufFields(v, m, 1, path)

\* Map: one map entry per key/value pair, over the keys from the i-th on
toProtobufStringMap(av, keys, i, valField, rawMap, path) ==
    IF i > Len(keys)
    THEN Raw(rawMap)
    ELSE
        LET key == keys[i]
        IN  Only({IF ev.err # Nil
                  THEN ev
                  ELSE toProtobufStringMap(
                            av, keys, i + 1, valField, (key :> ev.raw) @@ rawMap, path) :
                  ev \in {toProtobufFieldValue(
                            av.m[key], valField,
                            Append(path, IndexStep(StringVal(key))))}})

\* Set of {key, value} objects: one map entry per element
toProtobufOtherMap(elems, keyField, valField, rawMap, path) ==
    IF elems = {}
    THEN Raw(rawMap)
    ELSE
        LET elem == CHOOSE e \in elems : TRUE
            ipath == Append(path, IndexStep(elem))
        IN  Only({IF ek.err # Nil
                  THEN ek
                  ELSE Only({IF ev.err # Nil
                             THEN ev
                             ELSE toProtobufOtherMap(
                                    elems \ {elem}, keyField, valField,
                                    (ek.raw :> ev.raw) @@ rawMap, path) :
                             ev \in {toProtobufFieldValue(
                                        elem.attrs["value"], valField, ipath)}}) :
                  ek \in {toProtobufFieldValue(elem.attrs["key"], keyField, ipath)}})

\* List: one repeated element per list entry, from element i on
toProtobufList(av, i, field, rawList, path) ==
    IF i > Len(av.l)
    THEN Raw(rawList)
    ELSE
        Only({IF ev.err # Nil
              THEN ev
              ELSE toProtobufList(av, i + 1, field, Append(rawList, ev.raw), path) :
              ev \in {toProtobufFieldKindValue(
                        av.l[i], field,
                        Append(path, IndexStep(NumberIntVal(i - 1))))}})

toProtobufFieldValue(av, field, path) ==
    IF IsMap(field)
    THEN
        LET subFields == Messages[field.message].fields
            keyField == ByNumber(subFields, 1)
            valField == ByNumber(subFields, 2)
        IN  IF keyField.kind = "string"
            THEN toProtobufStringMap(
                    av, SelectSeq(StrKeys, LAMBDA key : key \in DOMAIN av.m), 1,
                    valField, << >>, path)
            ELSE toProtobufOtherMap(av.set, keyField, valField, << >>, path)
    ELSE IF IsList(field)
    THEN toProtobufList(av, 1, field, << >>, path)
    ELSE toProtobufFieldKindValue(av, field, path)

\* toProtobufFieldKindValue converting as Go converts between integer types:
\* the fraction dropped and the number wrapped into the range of the kind
toProtobufFieldKindValue_wrap(av, field, path) ==
    LET kind == field.kind
    IN  CASE kind = "bool" -> Raw(av.b)
          [] kind \in SignedKinds \cup UnsignedKinds ->
                IF \/ av.h % 2 # 0
                   \/ av.h \div 2 < MinOf(kind)
                   \/ av.h \div 2 > MaxOf(kind)
                THEN Raw(MinOf(kind)
                         + ((av.h \div 2 - MinOf(kind)) % (2 ^ Bits(kind))))
                ELSE Raw(av.h \div 2)
          [] kind \in FloatKinds ->
                IF av.h > 2 * MaxFloat(kind) \/ av.h < -(2 * MaxFloat(kind))
                THEN RawFail(OutOfRange(path))
                ELSE Raw(av.h)
          [] kind = "string" -> Raw(av.s)
          [] kind = "bytes" ->
                Only({IF d.ok THEN Raw(d.bytes) ELSE RawFail(InvalidEncoding(path)) :
                      d \in {DecodeString(av.s)}})
          [] kind = "enum" ->
                IF HasEnumName(field.enum, av.s)
                THEN Raw(EnumByName(field.enum, av.s).number)
                ELSE RawFail(InvalidEnumName(path, av.s))
          [] kind \in MessageKinds ->
                Only({IF sub.err # Nil THEN RawFail(sub.err) ELSE Raw(sub.m) :
                      sub \in {toProtobufMessage(av, New(field.message), path)}})

toProtobufFieldKindValue(av, field, path) ==
    LET kind == field.kind
    IN  CASE kind = "bool" -> Raw(av.b)
          [] kind \in SignedKinds \cup UnsignedKinds ->
                IF \/ av.h % 2 # 0
                   \/ av.h \div 2 < MinOf(kind)
                   \/ av.h \div 2 > MaxOf(kind)
                THEN RawFail(OutOfRange(path))
                ELSE Raw(av.h \div 2)
          [] kind \in FloatKinds ->
                IF av.h > 2 * MaxFloat(kind) \/ av.h < -(2 * MaxFloat(kind))
                THEN RawFail(OutOfRange(path))
                ELSE Raw(av.h)
          [] kind = "string" -> Raw(av.s)
          [] kind = "bytes" ->
                Only({IF d.ok THEN Raw(d.bytes) ELSE RawFail(InvalidEncoding(path)) :
                      d \in {DecodeString(av.s)}})
          [] kind = "enum" ->
                IF HasEnumName(field.enum, av.s)
                THEN Raw(EnumByName(field.enum, av.s).number)
                ELSE RawFail(InvalidEnumName(path, av.s))
          [] kind \in MessageKinds ->
                Only({IF sub.err # Nil THEN RawFail(sub.err) ELSE Raw(sub.m) :
                      sub \in {toProtobufMessage(av, New(field.message), path)}})

ToProtobufMessage(v, m) ==
    LET path == << >>
    IN  toProtobufMessage(v, m, path)

(***************************************************************************)
(* The caller: it holds a message of one of the descriptors and calls the  *)
(* package's functions on it, each at most once, in any order.             *)
(***************************************************************************)
None == [none |-> TRUE]

Init ==
    /\ desc \in Roots
    /\ msg \in Instances(desc, MaxSize)
    /\ ty = None
    /\ val = None
    /\ back = None
    /\ dec = None
    /\ walk = None

\* got, err := ImpliedTypeForMessageDesc(desc)
Derive ==
    /\ ty = None
    /\ ty' = ImpliedTypeForMessageDesc(desc)
    /\ UNCHANGED <<desc, msg, val, back, dec, walk>>

\* got, err := FromProtobufMessage(msg)
Encode ==
    /\ val = None
    /\ \E ord \in RangeOrders : val' = FromProtobufMessage(msg, ord)
    /\ UNCHANGED <<desc, msg, ty, back, dec, walk>>

\* err := ToProtobufMessage(got, into), on a value FromProtobufMessage gave
Decode ==
    /\ val # None
    /\ val.err = Nil
    /\ ~IsPanic(val.v)
    /\ back = None
    /\ \E into \in {New(desc)} :
            back' = [into |-> into, out |-> ToProtobufMessage(val.v, into)]
    /\ UNCHANGED <<desc, msg, ty, val, dec, walk>>

Next == Derive \/ Encode \/ Decode

Spec == Init /\ [][Next]_vars

(***************************************************************************)
(* The caller that decodes a value of its own making into the message it   *)
(* holds.  The value conforms to the implied type of the descriptor: it is *)
(* the encoding of the message or of a fresh one, with at most one         *)
(* attribute replaced by another value of the attribute's type.            *)
(***************************************************************************)
\* the size of the message decoded into
MaxInto == 1

\* the values of the type of field's attribute that the caller puts in
\* place of the attribute
Replacements(field) ==
    {NullVal(impliedTypeForFieldDesc(field, << >>).ty)}
    \cup IF field.cardinality = "repeated" THEN {}
         ELSE CASE field.kind \in SignedKinds \cup UnsignedKinds ->
                        {NumberIntVal(MinOf(field.kind) - 1),
                         NumberIntVal(MinOf(field.kind)),
                         NumberIntVal(MaxOf(field.kind)),
                         NumberIntVal(MaxOf(field.kind) + 1),
                         NumberFloatVal(1), NumberFloatVal(3)}
                [] field.kind \in FloatKinds ->
                        {NumberFloatVal(3),
                         NumberIntVal(MaxFloat(field.kind)),
                         NumberIntVal(MaxFloat(field.kind) + 1),
                         NumberIntVal(-(MaxFloat(field.kind) + 1))}
                [] field.kind = "string" -> {StringVal(<<"h", "i">>)}
                [] field.kind = "bytes" ->
                        {StringVal(<<"S", "E", "k", "=">>), StringVal(<<"S", "E", "k">>),
                         StringVal(<<"!", "E", "k", "=">>)}
                [] field.kind = "enum" -> {StringVal(<<"d">>), StringVal(<<"z">>)}
                [] field.kind \in MessageKinds ->
                        {FromProtobufMessage(
                            New(field.message),
                            CHOOSE ord \in RangeOrders : TRUE).v}
                [] OTHER -> {}

\* value v and v with one attribute replaced
Variants(v, d) ==
    {v} \cup UNION {{[v EXCEPT !.attrs[Messages[d].fields[i].name] = a] :
                        a \in Replacements(Messages[d].fields[i])} :
                    i \in 1..Len(Messages[d].fields)}

\* the values the caller starts from: the encoding it got of the message it
\* holds, and that of a fresh message
Encodings ==
    {r.v : r \in {e \in {val, FromProtobufMessage(
                                New(desc), CHOOSE ord \in RangeOrders : TRUE)} :
                    e.err = Nil /\ ~IsPanic(e.v)}}

InitDecode ==
    /\ desc \in Roots
    /\ msg \in Instances(desc, MaxInto)
    /\ ty = None
    /\ val = None
    /\ back = None
    /\ dec = None
    /\ walk = None

\* err := ToProtobufMessage(v, msg), once the type is derived and the
\* message encoded
DecodeInto ==
    /\ dec = None
    /\ ty # None
    /\ ty.err = Nil
    /\ val # None
    /\ \E v \in UNION {Variants(e, desc) : e \in Encodings} :
            dec' = [v |-> v, into |-> msg, out |-> ToProtobufMessage(v, msg)]
    /\ UNCHANGED <<desc, msg, ty, val, back, walk>>

NextDecode == Derive \/ Encode \/ DecodeInto

SpecDecode == InitDecode /\ [][NextDecode]_vars

(***************************************************************************)
(* What the claims speak of.                                               *)
(***************************************************************************)
Derived == ty # None /\ ty.err = Nil

Encoded == val # None /\ val.err = Nil /\ ~IsPanic(val.v)

EncodeFailed == val # None /\ val.err # Nil

FieldsOf(d) == {Messages[d].fields[i] : i \in 1..Len(Messages[d].fields)}

KeyField(field) == ByNumber(Messages[field.message].fields, 1)

ValField(field) == ByNumber(Messages[field.message].fields, 2)

\* the field declared outside any oneof, with presence tracking p
Plain(field, p) == [field EXCEPT !.oneof = "", !.hasPresence = p]

\* the type of the key of a map, which the deriver puts in the index step
\* of the path to the map's values
KeyStepType(keyField) ==
    CASE keyField.kind = "string" -> String
      [] keyField.kind = "bool" -> Bool
      [] OTHER -> Number

\* the fields reachable in the schema tree of descriptor d, the key and
\* value fields of maps included, each with the path that leads to it: an
\* attribute step per named field and an index step into the values of a
\* map
RECURSIVE SchemaFields(_, _)
RECURSIVE SchemaFieldsAt(_, _)
SchemaFieldsAt(f, path) ==
    {[field |-> f, path |-> path]}
    \cup IF IsMap(f)
         THEN {[field |-> KeyField(f), path |-> path]}
              \cup SchemaFieldsAt(
                        ValField(f),
                        Append(path, IndexStep(UnknownVal(KeyStepType(KeyField(f))))))
         ELSE IF f.kind \in MessageKinds
         THEN SchemaFields(f.message, path)
         ELSE {}

SchemaFields(d, path) ==
    UNION {SchemaFieldsAt(f, Append(path, GetAttrStep(f.name))) : f \in FieldsOf(d)}

\* the reachable fields of d whose kind is none of the supported kinds
Unsupported(d) == {e \in SchemaFields(d, << >>) : e.field.kind \notin Kinds}

Supported(d) == Unsupported(d) = {}

\* C1: whenever both ImpliedTypeForMessageDesc(desc) and
\* FromProtobufMessage(msg) have succeeded, the type of the value is exactly
\* the implied type.
C1_TypeOfEncodedIsImplied == (Derived /\ Encoded) => val.v.ty = ty.ty

\* both succeeded on a message with a nested message in a list and an entry
\* in a map that is not keyed by string
C1_Witness ==
    /\ Derived
    /\ Encoded
    /\ desc = "WithRepeated"
    /\ msg.fields["t_message"].has
    /\ msg.fields["t_map_number_message"].has

C3_OneAttributePerField ==
    Derived =>
        /\ ty.ty.k = "Object"
        /\ DOMAIN ty.ty.attrs = {f.name : f \in FieldsOf(desc)}
        /\ Cardinality(DOMAIN ty.ty.attrs) = Len(Messages[desc].fields)
        /\ \A f \in FieldsOf(desc) : \A p \in BOOLEAN :
                LET plain == impliedTypeForFieldDesc(Plain(f, p), <<GetAttrStep(f.name)>>)
                IN  plain.err = Nil /\ ty.ty.attrs[f.name] = plain.ty

\* the type of a message with a oneof of a message and a scalar was derived
C3_Witness ==
    /\ Derived
    /\ desc = "Extra"
    /\ \E f, g \in FieldsOf(desc) : f # g /\ f.oneof # "" /\ f.oneof = g.oneof

\* the type a field kind maps to, as the specification's kind_type states it
KindType(field) ==
    CASE field.kind = "bool" -> Bool
      [] field.kind \in NumericKinds -> Number
      [] field.kind \in {"string", "bytes", "enum"} -> String
      [] field.kind \in MessageKinds -> ImpliedTypeForMessageDesc(field.message).ty

\* C4: a singular field derives to the type of its kind, a map keyed by
\* string to Map of the value field's type, a map keyed otherwise to Set of
\* Object{key, value}, and any other repeated field to List of the type of
\* its kind.
C4_TypeByCardinality ==
    Derived =>
        \A f \in FieldsOf(desc) :
            LET aty == ty.ty.attrs[f.name]
                path == <<GetAttrStep(f.name)>>
            IN  IF f.cardinality # "repeated"
                THEN aty = impliedTypeForFieldKind(f, path).ty
                ELSE IF IsMap(f) /\ KeyField(f).kind = "string"
                THEN aty = Map(impliedTypeForFieldDesc(ValField(f), path).ty)
                ELSE IF IsMap(f)
                THEN aty = Set(Object(
                                "key" :> impliedTypeForFieldDesc(KeyField(f), path).ty
                                @@ "value" :> impliedTypeForFieldDesc(ValField(f), path).ty))
                ELSE aty = List(impliedTypeForFieldKind(f, path).ty)

\* derived: lists, maps keyed by string and maps keyed by int64
C4_Witness ==
    /\ Derived
    /\ desc = "WithRepeated"
    /\ ty.ty.attrs["t_map_number_bool"].k = "Set"
    /\ ty.ty.attrs["t_map_string_bool"].k = "Map"
    /\ ty.ty.attrs["t_strings"].k = "List"

\* C5: bool maps to Bool, the twelve numeric kinds to Number, string, bytes
\* and enum to String, message and group to the implied type of the nested
\* message descriptor.
C5_KindType ==
    Derived =>
        \A f \in FieldsOf(desc) :
            LET kty == impliedTypeForFieldKind(f, <<GetAttrStep(f.name)>>)
            IN  /\ kty.err = Nil
                /\ kty.ty = KindType(f)
                /\ f.cardinality # "repeated" => ty.ty.attrs[f.name] = KindType(f)

\* derived: the message with all twelve numeric kinds, bool, string, bytes
\* and a nested message
C5_Witness ==
    /\ Derived
    /\ desc = "Assorted"
    /\ NumericKinds \cup {"bool", "string", "bytes", "message"}
            \subseteq {f.kind : f \in FieldsOf(desc)}

\* an order of visiting map entries, where the order does not matter
AnyOrder == CHOOSE ord \in RangeOrders : TRUE

\* the encoding of a map key
KeyValue(rawK, keyField) ==
    fromProtobufFieldKindValue(rawK, keyField, << >>, AnyOrder).v

\* the encoding of one field value on its own
FieldValue(rawV, field) == fromProtobufFieldValue(rawV, field, << >>, AnyOrder)

\* the messages within message m, m included, each with the object that
\* encodes it within v, the encoding of m
RECURSIVE Parts(_, _)
FieldParts(m, v, f) ==
    LET a == v.attrs[f.name]
        raw == Get(m, f)
    IN  IF IsNull(a) THEN {}
        ELSE IF IsMap(f)
        THEN
            IF ValField(f).kind \notin MessageKinds THEN {}
            ELSE IF KeyField(f).kind = "string"
            THEN UNION {Parts(raw[key], a.m[key]) : key \in DOMAIN raw \cap DOMAIN a.m}
            ELSE UNION {UNION {Parts(raw[rawK], e.attrs["value"]) :
                                e \in {x \in a.set :
                                        x.attrs["key"] = KeyValue(rawK, KeyField(f))}} :
                        rawK \in DOMAIN raw}
        ELSE IF f.kind \notin MessageKinds THEN {}
        ELSE IF IsList(f)
        THEN UNION {Parts(raw[i], a.l[i]) : i \in DOMAIN raw \cap DOMAIN a.l}
        ELSE IF Has(m, f) /\ ~IsNull(a) THEN Parts(raw, a)
        ELSE {}

Parts(m, v) ==
    {<<m, v>>} \cup UNION {FieldParts(m, v, f) : f \in FieldsOf(m.desc)}

\* the encoding of the zero value of a singular field's kind
ZeroEncoding(field) ==
    CASE field.kind = "bool" -> [ty |-> Bool, b |-> FALSE]
      [] field.kind \in NumericKinds -> [ty |-> Number, h |-> 0]
      [] field.kind \in {"string", "bytes"} -> [ty |-> String, s |-> << >>]
      [] field.kind = "enum" ->
            [ty |-> String,
             s |-> Enums[field.enum][CHOOSE i \in 1..Len(Enums[field.enum]) :
                                        Enums[field.enum][i].number = 0].name]

\* C6: in the encoding of every message, nested ones included, an attribute
\* is null exactly when its field tracks presence and is unset, and is then
\* null of the field's implied type; an unset singular field without
\* presence encodes to the zero value of its kind; a list or map field is
\* never null.
C6_PresencePolicy ==
    Encoded =>
        \A p \in Parts(msg, val.v) : \A f \in FieldsOf(p[1].desc) :
            LET a == p[2].attrs[f.name]
            IN  /\ IsNull(a) <=> (f.hasPresence /\ ~Has(p[1], f))
                /\ IsNull(a) => a.ty = impliedTypeForFieldDesc(f, << >>).ty
                /\ (~f.hasPresence /\ f.cardinality # "repeated" /\ ~Has(p[1], f))
                        => a = ZeroEncoding(f)
                /\ f.cardinality = "repeated" => ~IsNull(a)

\* encoded: optional fields set and unset beside unset fields without
\* presence
C6_Witness ==
    /\ Encoded
    /\ desc = "WithOptional"
    /\ msg.fields["int32_opt"].has
    /\ ~msg.fields["string_opt"].has
    /\ ~msg.fields["string_req"].has
    /\ IsNull(val.v.attrs["string_opt"])

\* message m with the members of oneof g cleared
ClearGroup(m, g) ==
    [m EXCEPT !.fields =
        [name \in DOMAIN m.fields |->
            LET f == CHOOSE x \in FieldsOf(m.desc) : x.name = name
            IN  IF f.oneof = g THEN Unset(f) ELSE m.fields[name]]]

\* C7: in the encoding of every message, for each oneof the attribute of the
\* selected member is not null and those of the other members are null, so
\* at most one of them is not null; the attributes of the fields outside
\* the oneof are what they are with no member selected.
C7_OneofPolicy ==
    Encoded =>
        \A p \in Parts(msg, val.v) :
            \A g \in {f.oneof : f \in FieldsOf(p[1].desc)} \ {""} :
                LET m == p[1]
                    v == p[2]
                    members == {f \in FieldsOf(m.desc) : f.oneof = g}
                    cleared == fromProtobufMessage(ClearGroup(m, g), << >>, AnyOrder)
                IN  /\ \A f \in members : IsNull(v.attrs[f.name]) <=> ~Has(m, f)
                    /\ Cardinality({f \in members : ~IsNull(v.attrs[f.name])}) <= 1
                    /\ cleared.err = Nil
                    /\ \A f \in FieldsOf(m.desc) \ members :
                            cleared.v.attrs[f.name] = v.attrs[f.name]

\* encoded: b selected and outside set
C7_Witness ==
    /\ Encoded
    /\ desc = "WithOneOf"
    /\ msg.fields["b"].has
    /\ msg.fields["outside"].has
    /\ ~IsNull(val.v.attrs["b"])

\* the number of elements of a collection value
Size(a) ==
    CASE "l" \in DOMAIN a -> Len(a.l)
      [] "m" \in DOMAIN a -> Cardinality(DOMAIN a.m)
      [] "set" \in DOMAIN a -> Cardinality(a.set)
      [] OTHER -> -1

\* the values a repeated field holds when it is not empty
NonEmpty(field) == {p.v : p \in UNION {Populated(field, c) : c \in 1..MaxSize}}

\* C8: a repeated field with no elements encodes to a List, Map or Set of
\* size zero of the field's implied type, whose element type is that of
\* every encoding of the field with elements.
C8_EmptyCollectionTyping ==
    Encoded =>
        \A p \in Parts(msg, val.v) :
            \A f \in {x \in FieldsOf(p[1].desc) : x.cardinality = "repeated"} :
                LET a == p[2].attrs[f.name]
                IN  Get(p[1], f) = << >> =>
                        /\ Size(a) = 0
                        /\ a.ty.k = IF IsList(f) THEN "List"
                                    ELSE IF KeyField(f).kind = "string" THEN "Map"
                                    ELSE "Set"
                        /\ a.ty = impliedTypeForFieldDesc(f, << >>).ty
                        /\ \A raw \in NonEmpty(f) :
                                LET r == FieldValue(raw, f)
                                IN  ~Aborted(r) => r.v.ty.e = a.ty.e

\* encoded: an empty list of messages, an empty map keyed by string and an
\* empty map keyed by int64, both of messages
C8_Witness ==
    /\ Encoded
    /\ desc = "WithRepeated"
    /\ val.v.attrs["t_message"].l = << >>
    /\ val.v.attrs["t_map_string_message"].m = << >>
    /\ val.v.attrs["t_map_number_message"].set = {}
    /\ val.v.attrs["t_map_number_message"].ty.e.attrs["value"].k = "Object"

\* C9: a map keyed by string encodes to a Map with exactly the keys of the
\* map, each with the encoding of its value; a map keyed otherwise encodes
\* to a Set with one Object{key, value} per entry, of the encodings of the
\* entry's key and value.
C9_MapOrSet ==
    Encoded =>
        \A p \in Parts(msg, val.v) :
            \A f \in {x \in FieldsOf(p[1].desc) : IsMap(x)} :
                LET a == p[2].attrs[f.name]
                    raw == Get(p[1], f)
                IN  IF KeyField(f).kind = "string"
                    THEN /\ a.ty.k = "Map"
                         /\ DOMAIN a.m = DOMAIN raw
                         /\ \A key \in DOMAIN raw :
                                a.m[key] = FieldValue(raw[key], ValField(f)).v
                    ELSE /\ a.ty.k = "Set"
                         /\ Cardinality(a.set) = Cardinality(DOMAIN raw)
                         /\ a.set = {[ty |-> a.ty.e,
                                      attrs |-> [key |-> KeyValue(rawK, KeyField(f)),
                                                 value |-> FieldValue(raw[rawK], ValField(f)).v]] :
                                     rawK \in DOMAIN raw}

\* encoded: two entries in a map keyed by string and in a map keyed by
\* int64
C9_Witness ==
    /\ Encoded
    /\ \/ /\ desc = "WithRepeated"
          /\ Cardinality(DOMAIN msg.fields["t_map_number_bool"].v) = 2
          /\ Cardinality(val.v.attrs["t_map_number_bool"].set) = 2
       \/ /\ desc = "WithRepeated"
          /\ Cardinality(DOMAIN msg.fields["t_map_string_message"].v) = 2
          /\ Cardinality(DOMAIN val.v.attrs["t_map_string_message"].m) = 2

\* a value of an enum field reads as the name declared for number rawV
EnumNamed(a, enum, rawV) ==
    /\ a.ty = String
    /\ "s" \in DOMAIN a
    /\ \E i \in 1..Len(Enums[enum]) :
            Enums[enum][i].number = rawV /\ Enums[enum][i].name = a.s

\* where message m holds an enum number that its enum does not declare:
\* the path and the number of each.  The step into a map that is not keyed
\* by string is the encoding of the entry's key when keyed, and the
\* placeholder the code uses otherwise.
RECURSIVE InvalidEnums(_, _, _)
InvalidEnumsAt(rawV, field, path, keyed) ==
    IF field.kind = "enum"
    THEN IF HasEnumNumber(field.enum, rawV)
         THEN {}
         ELSE {[path |-> path, num |-> rawV]}
    ELSE IF field.kind \in MessageKinds
    THEN InvalidEnums(rawV, path, keyed)
    ELSE {}

InvalidEnumsIn(m, f, path, keyed) ==
    LET raw == Get(m, f)
        fpath == Append(path, GetAttrStep(f.name))
    IN  IF f.hasPresence /\ ~Has(m, f) THEN {}
        ELSE IF IsMap(f)
        THEN UNION {InvalidEnumsAt(
                        raw[rawK], ValField(f),
                        Append(fpath,
                               IndexStep(IF KeyField(f).kind = "string" \/ keyed
                                         THEN KeyValue(rawK, KeyField(f))
                                         ELSE DynamicVal)),
                        keyed) : rawK \in DOMAIN raw}
        ELSE IF IsList(f)
        THEN UNION {InvalidEnumsAt(
                        raw[i], f,
                        Append(fpath, IndexStep([ty |-> Number, h |-> 2 * (i - 1)])),
                        keyed) : i \in DOMAIN raw}
        ELSE InvalidEnumsAt(raw, f, fpath, keyed)

InvalidEnums(m, path, keyed) ==
    UNION {InvalidEnumsIn(m, f, path, keyed) : f \in FieldsOf(m.desc)}

\* every enum number in the encoded message reads as its declared name
EnumsNamed ==
    \A p \in Parts(msg, val.v) :
        \A f \in {x \in FieldsOf(p[1].desc) : ~IsNull(p[2].attrs[x.name])} :
            LET a == p[2].attrs[f.name]
                raw == Get(p[1], f)
            IN  IF IsMap(f)
                THEN ValField(f).kind = "enum" =>
                        IF KeyField(f).kind = "string"
                        THEN \A key \in DOMAIN raw :
                                EnumNamed(a.m[key], ValField(f).enum, raw[key])
                        ELSE \A rawK \in DOMAIN raw : \E e \in a.set :
                                /\ e.attrs["key"] = KeyValue(rawK, KeyField(f))
                                /\ EnumNamed(e.attrs["value"], ValField(f).enum, raw[rawK])
                ELSE f.kind = "enum" =>
                        IF IsList(f)
                        THEN /\ Len(a.l) = Len(raw)
                             /\ \A i \in DOMAIN raw : EnumNamed(a.l[i], f.enum, raw[i])
                        ELSE EnumNamed(a, f.enum, raw)

\* the encoder failed with InvalidEnumValue, at one of the places of msg
\* that hold an undeclared number, naming that number
FailedAtInvalidEnum(keyed) ==
    /\ val.err # Nil
    /\ val.v = NilVal
    /\ val.err.format = "value %d is not part of the enumeration"
    /\ [path |-> val.err.path, num |-> val.err.num] \in InvalidEnums(msg, << >>, keyed)

\* C10: in a message whose fields are all of supported kinds, an enum field
\* encodes to the String of the name declared for its number.  When the message holds undeclared numbers, the encoder gives no
\* value and fails with InvalidEnumValue, naming one such number and the
\* path to it: the field's attribute step, then the index step of a list
\* element or the key step of an entry of a map keyed by string; for an
\* entry of a map keyed otherwise that step is the unknown placeholder
\* cty.DynamicVal, never the entry's key.
C10_EnumEncoding ==
    (val # None /\ Supported(desc)) =>
        IF InvalidEnums(msg, << >>, FALSE) = {}
        THEN Encoded /\ EnumsNamed
        ELSE FailedAtInvalidEnum(FALSE)

\* C10 as stated: the path of the InvalidEnumValue error includes the map
\* key step of the entry that holds the undeclared number, whatever the
\* kind of the map's key.
C10_PathHasMapKey ==
    (val # None /\ Supported(desc)) =>
        IF InvalidEnums(msg, << >>, TRUE) = {}
        THEN Encoded /\ EnumsNamed
        ELSE FailedAtInvalidEnum(TRUE)

\* the encoder failed on an undeclared number in a map keyed by int64
C10_Witness ==
    /\ EncodeFailed
    /\ desc = "Extra"
    /\ \E rawK \in DOMAIN msg.fields["t_map_number_enum"].v :
            ~HasEnumNumber("Things", msg.fields["t_map_number_enum"].v[rawK])
    /\ val.err.path = <<GetAttrStep("t_map_number_enum"), IndexStep(DynamicVal)>>

\* byte strings of up to three bytes over the least, the greatest and a
\* middle byte: every length of the last group, with and without padding
SampleBytes ==
    {<< >>} \cup {<<x>> : x \in {0, 73, 255}}
    \cup {<<x, y>> : x, y \in {0, 73, 255}}
    \cup {<<x, y, z>> : x, y, z \in {0, 73, 255}}

\* the characters of the standard alphabet
Base64Chars == {Base64Alphabet[i] : i \in 1..64}

\* a string of groups of four characters of the standard alphabet, the last
\* group ending in no, one or two "="
IsPaddedBase64(s) ==
    /\ Len(s) % 4 = 0
    /\ \A i \in 1..Len(s) :
            \/ s[i] \in Base64Chars
            \/ /\ s[i] = "="
               /\ i >= Len(s) - 1
               /\ \A j \in (i + 1)..Len(s) : s[j] = "="

\* the attributes of bytes fields in the encoded message, each with the
\* bytes it encodes
EncodedBytes ==
    UNION {{<<Get(p[1], f), p[2].attrs[f.name]>> :
                f \in {x \in FieldsOf(p[1].desc) :
                        /\ x.kind = "bytes"
                        /\ x.cardinality # "repeated"
                        /\ ~IsNull(p[2].attrs[x.name])}} :
           p \in Parts(msg, val.v)}

\* C11: a bytes field encodes to the String of the standard padded Base64
\* encoding of its bytes: four characters per three bytes, which decode to
\* the bytes again; "HELLO COMPUTER" gives "SEVMTE8gQ09NUFVURVI=" and no
\* bytes give the empty string; distinct byte strings encode to distinct
\* strings.
C11_BytesBase64 ==
    /\ Encoded =>
        \A e \in EncodedBytes :
            /\ e[2].ty = String
            /\ IsPaddedBase64(e[2].s)
            /\ Len(e[2].s) = 4 * ((Len(e[1]) + 2) \div 3)
            /\ DecodeString(e[2].s) = [bytes |-> e[1], ok |-> TRUE]
            /\ e[1] = << >> => e[2].s = << >>
            /\ e[1] = HelloComputer =>
                    e[2].s = << "S", "E", "V", "M", "T", "E", "8", "g", "Q", "0",
                                "9", "N", "U", "F", "V", "U", "R", "V", "I", "=" >>
    /\ Cardinality({EncodeToString(b) : b \in SampleBytes}) = Cardinality(SampleBytes)
    /\ \A b \in SampleBytes :
            DecodeString(EncodeToString(b)) = [bytes |-> b, ok |-> TRUE]

\* encoded: a message whose bytes field holds "HELLO COMPUTER"
C11_Witness ==
    /\ Encoded
    /\ desc = "Assorted"
    /\ msg.fields["t_bytes"].v = HelloComputer
    /\ Len(val.v.attrs["t_bytes"].s) = 20

\* the type of an envelope: Object{type_url: String, value: String}
AnyType == Object([type_url |-> String, value |-> String])

\* field f holds envelopes: singly, as list elements or as map values
HoldsAny(f) ==
    /\ f.kind = "message"
    /\ IF IsMap(f)
       THEN ValField(f).kind = "message" /\ ValField(f).message = "google.protobuf.Any"
       ELSE f.message = "google.protobuf.Any"

\* the type of a field that holds envelopes, by its shape alone
AnyFieldType(f) ==
    IF IsMap(f)
    THEN IF KeyField(f).kind = "string"
         THEN Map(AnyType)
         ELSE Set(Object([key |-> KindType(KeyField(f)), value |-> AnyType]))
    ELSE IF IsList(f) THEN List(AnyType)
    ELSE AnyType

\* C12: a field of envelopes derives to Object{type_url: String, value:
\* String}, wrapped as any other message field is in a list or a map.  Every
\* envelope in the encoded message, whether a field's value, a list element
\* or a map value, is the object of its type identifier as it is and of the
\* Base64 of its payload; an unset singular envelope field is null of the
\* envelope's type.
C12_AnyAsMessage ==
    /\ Derived =>
            \A f \in {x \in FieldsOf(desc) : HoldsAny(x)} :
                ty.ty.attrs[f.name] = AnyFieldType(f)
    /\ Encoded =>
            \A p \in Parts(msg, val.v) :
                /\ p[1].desc = "google.protobuf.Any" =>
                        /\ p[2].ty = AnyType
                        /\ DOMAIN p[2].attrs = {"type_url", "value"}
                        /\ p[2].attrs["type_url"] =
                                [ty |-> String, s |-> p[1].fields["type_url"].v]
                        /\ p[2].attrs["value"].ty = String
                        /\ DecodeString(p[2].attrs["value"].s) =
                                [bytes |-> p[1].fields["value"].v, ok |-> TRUE]
                /\ \A f \in {x \in FieldsOf(p[1].desc) : HoldsAny(x)} :
                        LET a == p[2].attrs[f.name]
                        IN  /\ a.ty = AnyFieldType(f)
                            /\ f.cardinality # "repeated" =>
                                    /\ IsNull(a) <=> ~Has(p[1], f)
                                    /\ ~IsNull(a) => <<Get(p[1], f), a>> \in Parts(msg, val.v)
                            /\ IsList(f) =>
                                    /\ Len(a.l) = Len(Get(p[1], f))
                                    /\ \A i \in DOMAIN a.l :
                                            <<Get(p[1], f)[i], a.l[i]>> \in Parts(msg, val.v)
                            /\ (IsMap(f) /\ KeyField(f).kind = "string") =>
                                    /\ DOMAIN a.m = DOMAIN Get(p[1], f)
                                    /\ \A key \in DOMAIN a.m :
                                            <<Get(p[1], f)[key], a.m[key]>> \in Parts(msg, val.v)
                            /\ (IsMap(f) /\ KeyField(f).kind # "string") =>
                                    /\ Cardinality(a.set) = Cardinality(DOMAIN Get(p[1], f))
                                    /\ \A e \in a.set : \E rawK \in DOMAIN Get(p[1], f) :
                                            /\ e.attrs["key"] = KeyValue(rawK, KeyField(f))
                                            /\ <<Get(p[1], f)[rawK], e.attrs["value"]>>
                                                    \in Parts(msg, val.v)

\* encoded: an envelope with a payload as the value of a map keyed by int64,
\* beside the unset singular envelope field
C12_Witness ==
    /\ Encoded
    /\ desc = "WithAny"
    /\ ~msg.fields["t_any"].has
    /\ IsNull(val.v.attrs["t_any"])
    /\ \E e \in val.v.attrs["t_any_map_number"].set :
            e.attrs["value"].attrs["value"].s # << >>

\* C13: ImpliedTypeForMessageDesc fails exactly when some field reachable
\* in the schema tree is of no supported kind.  It then gives no type and the
\* error "no cty equivalent for protobuf kind" with the name of the kind of
\* such a field and the path to that field; it gives no other error.
C13_OnlyUnsupportedKind ==
    ty # None =>
        IF Supported(desc)
        THEN ty.err = Nil /\ ty.ty.k = "Object"
        ELSE /\ ty.ty = NilType
             /\ \E e \in Unsupported(desc) :
                    ty.err = [format |-> "no cty equivalent for protobuf kind %s",
                              kind |-> e.field.kind,
                              path |-> e.path]

\* derived and failed: the field of no declared kind is in a message that is
\* the value of a map within a list
C13_Witness ==
    /\ ty # None
    /\ desc = "Odd"
    /\ ty.err # Nil
    /\ ty.err.kind = UnknownKind(0)
    /\ ty.err.path = <<GetAttrStep("items"), GetAttrStep("by_name"),
                       IndexStep(UnknownVal(String)), GetAttrStep("bad")>>

RECURSIVE Flatten(_)
Flatten(ss) == IF Len(ss) = 0 THEN << >> ELSE Head(ss) \o Flatten(Tail(ss))

\* every error that deriving the type of a field can meet, in the order in
\* which the deriver comes to the fields: a field of a message before the
\* next, the key of a map before its value
RECURSIVE TypeFailuresAt(_, _)
RECURSIVE KindFailures(_, _)
TypeFailuresAt(f, path) ==
    IF IsMap(f)
    THEN IF KeyField(f).kind = "string"
         THEN TypeFailuresAt(ValField(f), Append(path, IndexStep(UnknownVal(String))))
         ELSE TypeFailuresAt(KeyField(f), path)
              \o TypeFailuresAt(
                    ValField(f),
                    Append(path, IndexStep(UnknownVal(KeyStepType(KeyField(f))))))
    ELSE KindFailures(f, path)

KindFailures(f, path) ==
    IF f.kind \in MessageKinds
    THEN Flatten([i \in 1..Len(Messages[f.message].fields) |->
                    TypeFailuresAt(
                        Messages[f.message].fields[i],
                        Append(path, GetAttrStep(Messages[f.message].fields[i].name)))])
    ELSE IF f.kind \in Kinds
    THEN << >>
    ELSE << [format |-> "no cty equivalent for protobuf kind %s",
             kind |-> f.kind, path |-> path] >>

\* those of the type of descriptor d
TypeFailures(d) ==
    Flatten([i \in 1..Len(Messages[d].fields) |->
                TypeFailuresAt(Messages[d].fields[i],
                               <<GetAttrStep(Messages[d].fields[i].name)>>)])

\* every error that encoding message m can meet, in the order in which the
\* encoder comes to the fields, list elements and, visited in order ord, map
\* entries
RECURSIVE ValueFailures(_, _, _)
RECURSIVE KindValueFailures(_, _, _, _)
FieldFailures(m, f, path, ord) ==
    LET raw == Get(m, f)
    IN  IF f.hasPresence /\ ~Has(m, f)
        THEN TypeFailuresAt(f, path)
        ELSE IF IsMap(f) /\ KeyField(f).kind = "string"
        THEN IF DOMAIN raw = {}
             THEN TypeFailuresAt(ValField(f), Append(path, IndexStep(UnknownVal(String))))
             ELSE Flatten([i \in 1..Len(Range(raw, KeyField(f), ord)) |->
                            LET key == Range(raw, KeyField(f), ord)[i]
                            IN  KindValueFailures(
                                    raw[key], ValField(f),
                                    Append(path, IndexStep([ty |-> String, s |-> key])),
                                    ord)])
        ELSE IF IsMap(f)
        THEN IF DOMAIN raw = {}
             THEN TypeFailuresAt(KeyField(f), Append(path, IndexStep(DynamicVal)))
                  \o TypeFailuresAt(ValField(f), Append(path, IndexStep(DynamicVal)))
             ELSE Flatten([i \in 1..Len(Range(raw, KeyField(f), ord)) |->
                            LET rawK == Range(raw, KeyField(f), ord)[i]
                            IN  KindValueFailures(
                                    rawK, KeyField(f),
                                    Append(path, IndexStep(DynamicVal)), ord)
                                \o KindValueFailures(
                                    raw[rawK], ValField(f),
                                    Append(path, IndexStep(DynamicVal)), ord)])
        ELSE IF IsList(f)
        THEN IF Len(raw) = 0
             THEN KindFailures(f, Append(path, IndexStep(UnknownVal(Number))))
             ELSE Flatten([i \in 1..Len(raw) |->
                            KindValueFailures(
                                raw[i], f,
                                Append(path, IndexStep([ty |-> Number, h |-> 2 * (i - 1)])),
                                ord)])
        ELSE KindValueFailures(raw, f, path, ord)

KindValueFailures(rawV, f, path, ord) ==
    IF f.kind \in MessageKinds
    THEN ValueFailures(rawV, path, ord)
    ELSE IF f.kind = "enum"
    THEN IF HasEnumNumber(f.enum, rawV)
         THEN << >>
         ELSE << [format |-> "value %d is not part of the enumeration",
                  num |-> rawV, path |-> path] >>
    ELSE IF f.kind \in Kinds
    THEN << >>
    ELSE << [format |-> "no cty equivalent for protobuf kind %s",
             kind |-> f.kind, path |-> path] >>

ValueFailures(m, path, ord) ==
    Flatten([i \in 1..Len(Messages[m.desc].fields) |->
                FieldFailures(m, Messages[m.desc].fields[i],
                              Append(path, GetAttrStep(Messages[m.desc].fields[i].name)),
                              ord)])

\* the first errors that encoding msg can meet, one per order of visiting
\* map entries
FirstFailures ==
    {Head(ValueFailures(msg, << >>, ord)) :
        ord \in {o \in RangeOrders : Len(ValueFailures(msg, << >>, o)) > 0}}

\* the deriver gives a type and no error, or no type and the first error it
\* can meet
DeriveAllOrNothing ==
    ty # None =>
        IF Len(TypeFailures(desc)) = 0
        THEN ty.err = Nil /\ ty.ty # NilType
        ELSE ty.ty = NilType /\ ty.err = Head(TypeFailures(desc))

\* the encoder gives a value and no error, or no value and the first error
\* it can meet
EncodeAllOrNothing ==
    val # None =>
        IF FirstFailures = {}
        THEN val.err = Nil /\ val.v # NilVal
        ELSE val.v = NilVal /\ val.err \in FirstFailures

DecodeFailed == dec # None /\ dec.out.err # Nil

\* the place among the fields of the descriptor of the attribute that the
\* path of the decoder's error starts with
FailedAt ==
    CHOOSE i \in 1..Len(Messages[desc].fields) :
        Messages[desc].fields[i].name = dec.out.err.path[1].name

\* the fields before the i-th that are in a oneof
EarlierOneofs(i) == {Messages[desc].fields[j].oneof : j \in 1..(i - 1)} \ {""}

Decoded == dec # None /\ dec.out.err = Nil

\* in message m, decoded from object v, the field of every null attribute is
\* unset when it tracks presence and holds the zero value of its kind when
\* it does not; likewise in the messages it holds of the attributes that are
\* objects
RECURSIVE NullsHonoured(_, _)
NullsHonoured(v, m) ==
    \A f \in FieldsOf(m.desc) :
        LET av == v.attrs[f.name]
        IN  IF IsNull(av)
            THEN /\ f.hasPresence => ~Has(m, f)
                 /\ Get(m, f) = ZeroValue(f)
            ELSE (f.kind \in MessageKinds /\ f.cardinality # "repeated" /\ Has(m, f)) =>
                    NullsHonoured(av, Get(m, f))

\* C15: after a decode that succeeded, every field whose attribute is null
\* is unset if it tracks presence, whatever the message held before, and
\* holds the zero value of its kind if it does not.
C15_DecoderNull == Decoded => NullsHonoured(dec.v, dec.out.m)

\* decoded: null into an optional field that was set, and null into a field
\* without presence
C15_Witness ==
    /\ Decoded
    /\ desc = "WithOptional"
    /\ dec.into.fields["string_opt"].has
    /\ IsNull(dec.v.attrs["string_opt"])
    /\ ~dec.out.m.fields["string_opt"].has
    /\ IsNull(dec.v.attrs["string_req"])
    /\ dec.out.m.fields["string_req"].v = << >>

\* the numbers a numeric kind can hold, counted in halves: the integers of
\* the width of an integer kind, and the halves up to the greatest magnitude
\* of a floating kind
Representable(kind) ==
    CASE kind \in {"int32", "sint32", "sfixed32"} ->
            {2 * i : i \in (-(2 ^ (Bits32 - 1)))..(2 ^ (Bits32 - 1) - 1)}
      [] kind \in {"uint32", "fixed32"} -> {2 * i : i \in 0..(2 ^ Bits32 - 1)}
      [] kind \in {"int64", "sint64", "sfixed64"} ->
            {2 * i : i \in (-(2 ^ (Bits64 - 1)))..(2 ^ (Bits64 - 1) - 1)}
      [] kind \in {"uint64", "fixed64"} -> {2 * i : i \in 0..(2 ^ Bits64 - 1)}
      [] kind = "float" -> (-(2 * 2 ^ Bits32))..(2 * 2 ^ Bits32)
      [] kind = "double" -> (-(2 * 2 ^ Bits64))..(2 * 2 ^ Bits64)

\* the singular numeric fields whose attribute in the decoded value is a
\* number
NumberFields ==
    {f \in FieldsOf(desc) :
        /\ f.kind \in NumericKinds
        /\ f.cardinality # "repeated"
        /\ ~IsNull(dec.v.attrs[f.name])}

\* those whose number the kind of the field cannot hold
Unrepresentable == {f \in NumberFields : dec.v.attrs[f.name].h \notin Representable(f.kind)}

\* the number a numeric field holds, counted in halves
Halves(f, rawV) == IF f.kind \in FloatKinds THEN rawV ELSE 2 * rawV

Oneofs == {f.oneof : f \in FieldsOf(desc)} \ {""}

\* the members of oneof g whose attribute in the decoded value is not null
NonNullMembers(g) ==
    {f \in FieldsOf(desc) : f.oneof = g /\ ~IsNull(dec.v.attrs[f.name])}

\* the members of oneof g that message m holds
SetMembers(m, g) == {f \in FieldsOf(desc) : f.oneof = g /\ Has(m, f)}

\* C17: after a successful decode, whatever the target held before, at most
\* one member of each oneof is set: none when the attributes of all members
\* are null, otherwise one member whose attribute is not null.  The outcome
\* is a function of the value alone: decoding the same value into a fresh
\* message gives the same error or the same message.
C17_DecoderOneof ==
    dec # None =>
        /\ Decoded =>
            \A g \in Oneofs :
                /\ Cardinality(SetMembers(dec.out.m, g)) <= 1
                /\ NonNullMembers(g) = {} => SetMembers(dec.out.m, g) = {}
                /\ NonNullMembers(g) # {} =>
                        /\ SetMembers(dec.out.m, g) # {}
                        /\ SetMembers(dec.out.m, g) \subseteq NonNullMembers(g)
        /\ LET again == ToProtobufMessage(dec.v, New(desc))
           IN  /\ again.err = dec.out.err
               /\ Decoded => again.m = dec.out.m

\* decoded: both a and b not null, into a target that holds a
C17_Witness ==
    /\ Decoded
    /\ desc = "WithOneOf"
    /\ Cardinality(NonNullMembers("t_oneof")) = 2
    /\ Has(dec.into, CHOOSE f \in FieldsOf(desc) : f.name = "a")
    /\ Cardinality(SetMembers(dec.out.m, "t_oneof")) = 1

(***************************************************************************)
(* The calls step by step.  A call runs on a stack of frames, one per Go   *)
(* call in progress, each with its own variable path: a slice, that is a   *)
(* pointer into a backing array of the heap with a length and a capacity.  *)
(* append writes into the array of the slice it is given while the array   *)
(* has room, so that the path of a field and the path of its next sibling  *)
(* share the array and the place they write to.                            *)
(***************************************************************************)
\* the capacity of make(cty.Path, 0, 4)
PathCap == 4

\* the place of a backing array that no append has written
NoStep == [step |-> "none"]

\* a slice: the backing array it points into, its length and its capacity
Slice(arr, len, cap) == [arr |-> arr, len |-> len, cap |-> cap]

\* make(cty.Path, 0, 4) taking up again the array of the earlier call, with
\* the steps that call wrote
make_reuse(h) ==
    IF h = << >>
    THEN [h |-> <<[i \in 1..PathCap |-> NoStep]>>, p |-> Slice(1, 0, PathCap)]
    ELSE [h |-> h,
          p |-> Slice(1, Cardinality({i \in 1..PathCap : h[1][i] # NoStep}), PathCap)]

\* make(cty.Path, 0, 4) on heap h: the heap with the new array, and the
\* slice
make(h) ==
    [h |-> Append(h, [i \in 1..PathCap |-> NoStep]),
     p |-> Slice(Len(h) + 1, 0, PathCap)]

\* append(p, step) on heap h: in place while the array has room, otherwise
\* into a new array of twice the capacity that holds a copy of the steps
append(h, p, step) ==
    IF p.len < p.cap
    THEN [h |-> [h EXCEPT ![p.arr][p.len + 1] = step],
          p |-> Slice(p.arr, p.len + 1, p.cap)]
    ELSE [h |-> Append(h, [i \in 1..(2 * p.cap) |->
                            IF i <= p.len THEN h[p.arr][i]
                            ELSE IF i = p.len + 1 THEN step
                            ELSE NoStep]),
          p |-> Slice(Len(h) + 1, p.len + 1, 2 * p.cap)]

\* reading a slice through to the end of what its array holds
Steps_written(h, p) == SelectSeq(h[p.arr], LAMBDA s : s # NoStep)

\* the steps that slice p reads on heap h
Steps(h, p) == SubSeq(h[p.arr], 1, p.len)

\* the Path of the PathError of path.NewErrorf: the slice itself or, when
\* copy, a copy of its steps as they are now
NewErrorfPath(h, p, copy) ==
    IF copy THEN [copied |-> Steps(h, p)] ELSE [slice |-> p]

\* the result r of a call as its caller reads it on heap h
Resolve(h, r) ==
    IF r.err = Nil
    THEN r
    ELSE [r EXCEPT !.err.path = IF "slice" \in DOMAIN r.err.path
                                THEN Steps(h, r.err.path.slice)
                                ELSE r.err.path.copied]

\* the frames of the calls
MessageDescFrame(d, path) ==
    [fn |-> "impliedTypeForMessageDesc", d |-> d, path |-> path, i |-> 1,
     atys |-> << >>]

FieldDescFrame(field, path) ==
    [fn |-> "impliedTypeForFieldDesc", field |-> field, path |-> path,
     pc |-> "start", keyTy |-> NilType, ipath |-> path]

FieldKindFrame(field, path) ==
    [fn |-> "impliedTypeForFieldKind", field |-> field, path |-> path]

MessageFrame(m, path) ==
    [fn |-> "fromProtobufMessage", m |-> m, path |-> path, i |-> 1,
     attrs |-> << >>, pc |-> "loop"]

FieldValueFrame(rawV, field, path) ==
    [fn |-> "fromProtobufFieldValue", rawV |-> rawV, field |-> field,
     path |-> path, pc |-> "start", keys |-> << >>, k |-> 1, elems |-> << >>,
     ek |-> NilVal, keyTy |-> NilType, ipath |-> path]

FieldKindValueFrame(rawV, field, path) ==
    [fn |-> "fromProtobufFieldKindValue", rawV |-> rawV, field |-> field,
     path |-> path]

\* the frame of the call in progress, and those of its callers
Top(w) == w.stack[Len(w.stack)]

Callers(w) == SubSeq(w.stack, 1, Len(w.stack) - 1)

\* the call in progress, now at frame, calls callee on heap h
Call(w, frame, callee, h) ==
    [w EXCEPT !.stack = Append(Append(Callers(w), frame), callee),
              !.heap = h, !.ret = None]

\* the call in progress returns r
ReturnTo(w, r) == [w EXCEPT !.stack = Callers(w), !.ret = r]

\* the call in progress goes on at frame
Continue(w, frame) ==
    [w EXCEPT !.stack = Append(Callers(w), frame), !.ret = None]

\* impliedTypeForMessageDesc whose loop stays at the field it is at
impliedTypeForMessageDescStep_sameField(w) ==
    LET f == Top(w)
        fields == Messages[f.d].fields
    IN  IF w.ret = None
        THEN IF f.i > Len(fields)
             THEN ReturnTo(w, Type(Object(f.atys)))
             ELSE LET a == append(w.heap, f.path, GetAttrStep(fields[f.i].name))
                  IN  Call(w, f, FieldDescFrame(fields[f.i], a.p), a.h)
        ELSE IF w.ret.err # Nil
        THEN ReturnTo(w, NoType(w.ret.err))
        ELSE Continue(w, [f EXCEPT !.atys = (fields[f.i].name :> w.ret.ty) @@ @])

\* impliedTypeForMessageDesc: the head of the loop, and the lines after the
\* call of impliedTypeForFieldDesc
impliedTypeForMessageDescStep(w) ==
    LET f == Top(w)
        fields == Messages[f.d].fields
    IN  IF w.ret = None
        THEN IF f.i > Len(fields)
             THEN ReturnTo(w, Type(Object(f.atys)))
             ELSE LET a == append(w.heap, f.path, GetAttrStep(fields[f.i].name))
                  IN  Call(w, f, FieldDescFrame(fields[f.i], a.p), a.h)
        ELSE IF w.ret.err # Nil
        THEN ReturnTo(w, NoType(w.ret.err))
        ELSE Continue(w, [f EXCEPT !.i = @ + 1,
                                   !.atys = (fields[f.i].name :> w.ret.ty) @@ @])

\* impliedTypeForFieldDesc: up to its first call, and the lines after each
\* of its calls
impliedTypeForFieldDescStep(w) ==
    LET f == Top(w)
        field == f.field
        isRepeated == field.cardinality = "repeated"
        subFields == Messages[field.message].fields
        keyField == ByNumber(subFields, 1)
        valField == ByNumber(subFields, 2)
    IN  CASE f.pc = "start" ->
                IF /\ isRepeated
                   /\ field.kind = "message"
                   /\ Messages[field.message].isMapEntry
                THEN IF keyField.kind = "string"
                     THEN LET a == append(w.heap, f.path,
                                          IndexStep(UnknownVal(String)))
                          IN  Call(w, [f EXCEPT !.pc = "mapVal"],
                                   FieldDescFrame(valField, a.p), a.h)
                     ELSE Call(w, [f EXCEPT !.pc = "key"],
                               FieldDescFrame(keyField, f.path), w.heap)
                ELSE Call(w, [f EXCEPT !.pc = "kind"],
                          FieldKindFrame(field, f.path), w.heap)
          [] f.pc = "mapVal" ->
                IF w.ret.err # Nil
                THEN ReturnTo(w, NoType(w.ret.err))
                ELSE ReturnTo(w, Type(Map(w.ret.ty)))
          [] f.pc = "key" ->
                IF w.ret.err # Nil
                THEN ReturnTo(w, NoType(w.ret.err))
                ELSE LET a == append(w.heap, f.path,
                                     IndexStep(UnknownVal(w.ret.ty)))
                     IN  Call(w, [f EXCEPT !.pc = "setVal", !.keyTy = w.ret.ty],
                              FieldDescFrame(valField, a.p), a.h)
          [] f.pc = "setVal" ->
                IF w.ret.err # Nil
                THEN ReturnTo(w, NoType(w.ret.err))
                ELSE ReturnTo(w, Type(Set(Object([key |-> f.keyTy,
                                                  value |-> w.ret.ty]))))
          [] f.pc = "kind" ->
                IF w.ret.err # Nil
                THEN ReturnTo(w, NoType(w.ret.err))
                ELSE IF isRepeated
                THEN ReturnTo(w, Type(List(w.ret.ty)))
                ELSE ReturnTo(w, Type(w.ret.ty))

\* impliedTypeForFieldKind: the switch, and the return of what
\* impliedTypeForMessageDesc returned
impliedTypeForFieldKindStep(w, copy) ==
    LET f == Top(w)
        kind == f.field.kind
    IN  IF w.ret # None
        THEN ReturnTo(w, w.ret)
        ELSE CASE kind = "bool" -> ReturnTo(w, Type(Bool))
               [] kind \in {"int32", "sint32", "uint32", "int64", "sint64",
                            "uint64", "sfixed32", "fixed32", "float",
                            "sfixed64", "fixed64", "double"} ->
                        ReturnTo(w, Type(Number))
               [] kind \in {"string", "bytes", "enum"} -> ReturnTo(w, Type(String))
               [] kind \in {"message", "group"} ->
                        Call(w, f, MessageDescFrame(f.field.message, f.path), w.heap)
               [] OTHER ->
                        ReturnTo(w, NoType(UnsupportedKind(
                                    NewErrorfPath(w.heap, f.path, copy), kind)))


\* fromProtobufMessage: the head of the loop, and the lines after the call
\* of impliedTypeForFieldDesc or of fromProtobufFieldValue
fromProtobufMessageStep(w) ==
    LET f == Top(w)
        fields == Descriptor(f.m).fields
        field == fields[f.i]
    IN  CASE f.pc = "loop" ->
                IF f.i > Len(fields)
                THEN ReturnTo(w, Return(ObjectVal(f.attrs)))
                ELSE LET a == append(w.heap, f.path, GetAttrStep(field.name))
                     IN  IF field.hasPresence /\ ~Has(f.m, field)
                         THEN Call(w, [f EXCEPT !.pc = "null"],
                                   FieldDescFrame(field, a.p), a.h)
                         ELSE Call(w, [f EXCEPT !.pc = "value"],
                                   FieldValueFrame(Get(f.m, field), field, a.p),
                                   a.h)
          [] f.pc = "null" ->
                IF w.ret.err # Nil
                THEN ReturnTo(w, Fail(w.ret.err))
                ELSE Continue(w, [f EXCEPT
                        !.pc = "loop", !.i = @ + 1,
                        !.attrs = (field.name :> NullVal(w.ret.ty)) @@ @])
          [] f.pc = "value" ->
                IF Aborted(w.ret)
                THEN ReturnTo(w, w.ret)
                ELSE Continue(w, [f EXCEPT
                        !.pc = "loop", !.i = @ + 1,
                        !.attrs = (field.name :> w.ret.v) @@ @])

\* fromProtobufFieldValue: the switch, the callbacks of Range and the loop
\* over the list, each up to its call and after it, and the lines after
\* them
fromProtobufFieldValueStep(w) ==
    LET f == Top(w)
        field == f.field
        subFields == Messages[field.message].fields
        keyField == ByNumber(subFields, 1)
        valField == ByNumber(subFields, 2)
    IN  CASE f.pc = "start" ->
                IF IsMap(field)
                THEN Continue(w, [f EXCEPT
                        !.pc = IF keyField.kind = "string"
                               THEN "stringMap" ELSE "otherMap",
                        !.keys = Range(f.rawV, keyField, w.ord)])
                ELSE IF IsList(field)
                THEN Continue(w, [f EXCEPT !.pc = "list"])
                ELSE Call(w, [f EXCEPT !.pc = "tail"],
                          FieldKindValueFrame(f.rawV, field, f.path), w.heap)
          [] f.pc = "stringMap" ->
                IF f.k <= Len(f.keys)
                THEN LET key == f.keys[f.k]
                         a == append(w.heap, f.path, IndexStep(StringVal(key)))
                     IN  Call(w, [f EXCEPT !.pc = "stringMapElem"],
                              FieldValueFrame(f.rawV[key], valField, a.p), a.h)
                ELSE IF DOMAIN f.elems = {}
                THEN LET a == append(w.heap, f.path,
                                     IndexStep(UnknownVal(String)))
                     IN  Call(w, [f EXCEPT !.pc = "stringMapEmpty"],
                              FieldDescFrame(valField, a.p), a.h)
                ELSE ReturnTo(w, Return(MapVal(f.elems)))
          [] f.pc = "stringMapElem" ->
                IF Aborted(w.ret)
                THEN ReturnTo(w, w.ret)
                ELSE Continue(w, [f EXCEPT
                        !.pc = "stringMap", !.k = @ + 1,
                        !.elems = (f.keys[f.k] :> w.ret.v) @@ @])
          [] f.pc = "stringMapEmpty" ->
                IF w.ret.err # Nil
                THEN ReturnTo(w, Fail(w.ret.err))
                ELSE ReturnTo(w, Return(MapValEmpty(w.ret.ty)))
          [] f.pc = "otherMap" ->
                IF f.k <= Len(f.keys)
                THEN LET a == append(w.heap, f.path, IndexStep(DynamicVal))
                     IN  Call(w, [f EXCEPT !.pc = "otherMapKey", !.ipath = a.p],
                              FieldValueFrame(f.keys[f.k], keyField, a.p), a.h)
                ELSE IF Len(f.elems) = 0
                THEN LET a == append(w.heap, f.path, IndexStep(DynamicVal))
                     IN  Call(w, [f EXCEPT !.pc = "otherMapEmptyKey",
                                           !.ipath = a.p],
                              FieldDescFrame(keyField, a.p), a.h)
                ELSE ReturnTo(w, Return(SetVal(f.elems)))
          [] f.pc = "otherMapKey" ->
                IF Aborted(w.ret)
                THEN ReturnTo(w, w.ret)
                ELSE Call(w, [f EXCEPT !.pc = "otherMapVal", !.ek = w.ret.v],
                          FieldValueFrame(f.rawV[f.keys[f.k]], valField, f.ipath),
                          w.heap)
          [] f.pc = "otherMapVal" ->
                IF Aborted(w.ret)
                THEN ReturnTo(w, w.ret)
                ELSE Continue(w, [f EXCEPT
                        !.pc = "otherMap", !.k = @ + 1,
                        !.elems = Append(@, ObjectVal([key |-> f.ek,
                                                       value |-> w.ret.v]))])
          [] f.pc = "otherMapEmptyKey" ->
                IF w.ret.err # Nil
                THEN ReturnTo(w, Fail(w.ret.err))
                ELSE Call(w, [f EXCEPT !.pc = "otherMapEmptyVal",
                                       !.keyTy = w.ret.ty],
                          FieldDescFrame(valField, f.ipath), w.heap)
          [] f.pc = "otherMapEmptyVal" ->
                IF w.ret.err # Nil
                THEN ReturnTo(w, Fail(w.ret.err))
                ELSE ReturnTo(w, Return(SetValEmpty(
                        Object([key |-> f.keyTy, value |-> w.ret.ty]))))
          [] f.pc = "list" ->
                IF f.k <= Len(f.rawV)
                THEN LET a == append(w.heap, f.path,
                                     IndexStep(NumberIntVal(f.k - 1)))
                     IN  Call(w, [f EXCEPT !.pc = "listElem"],
                              FieldKindValueFrame(f.rawV[f.k], field, a.p), a.h)
                ELSE IF Len(f.elems) = 0
                THEN LET a == append(w.heap, f.path,
                                     IndexStep(UnknownVal(Number)))
                     IN  Call(w, [f EXCEPT !.pc = "listEmpty"],
                              FieldKindFrame(field, a.p), a.h)
                ELSE ReturnTo(w, Return(ListVal(f.elems)))
          [] f.pc = "listElem" ->
                IF Aborted(w.ret)
                THEN ReturnTo(w, w.ret)
                ELSE Continue(w, [f EXCEPT !.pc = "list", !.k = @ + 1,
                                           !.elems = Append(@, w.ret.v)])
          [] f.pc = "listEmpty" ->
                IF w.ret.err # Nil
                THEN ReturnTo(w, Fail(w.ret.err))
                ELSE ReturnTo(w, Return(ListValEmpty(w.ret.ty)))
          [] f.pc = "tail" -> ReturnTo(w, w.ret)

\* fromProtobufFieldKindValue: the switch, and the return of what
\* fromProtobufMessage returned.  The conversions of the kinds that are no
\* messages are those of fromProtobufFieldKindValue above; the path of
\* their error is the slice of this call.
fromProtobufFieldKindValueStep(w, copy) ==
    LET f == Top(w)
        kind == f.field.kind
    IN  IF w.ret # None
        THEN ReturnTo(w, w.ret)
        ELSE IF kind \in {"message", "group"}
        THEN Call(w, f, MessageFrame(f.rawV, f.path), w.heap)
        ELSE LET r == fromProtobufFieldKindValue(f.rawV, f.field, << >>, w.ord)
             IN  IF r.err = Nil
                 THEN ReturnTo(w, r)
                 ELSE ReturnTo(w, Fail([r.err EXCEPT
                            !.path = NewErrorfPath(w.heap, f.path, copy)]))

\* one step of the call in progress
Step(w, copy) ==
    LET fn == Top(w).fn
    IN  CASE fn = "impliedTypeForMessageDesc" -> impliedTypeForMessageDescStep(w)
          [] fn = "impliedTypeForFieldDesc" -> impliedTypeForFieldDescStep(w)
          [] fn = "impliedTypeForFieldKind" -> impliedTypeForFieldKindStep(w, copy)
          [] fn = "fromProtobufMessage" -> fromProtobufMessageStep(w)
          [] fn = "fromProtobufFieldValue" -> fromProtobufFieldValueStep(w)
          [] fn = "fromProtobufFieldKindValue" ->
                fromProtobufFieldKindValueStep(w, copy)

(***************************************************************************)
(* The caller that calls ImpliedTypeForMessageDesc and FromProtobufMessage *)
(* again and again on the message it holds, and ToProtobufMessage once on  *)
(* a value it got.  walk.log names the calls made so far, walk.types holds *)
(* what the calls of ImpliedTypeForMessageDesc returned.                   *)
(***************************************************************************)
\* the size of the message the calls walk
MaxWalk == 1

\* the number of calls of the three functions
MaxCalls == 3

InitWalk ==
    /\ desc \in Roots
    /\ msg \in Instances(desc, MaxWalk)
    /\ ty = None
    /\ val = None
    /\ back = None
    /\ dec = None
    /\ walk = [fn |-> "", stack |-> << >>, heap |-> << >>, ret |-> None,
               ord |-> CHOOSE ord \in RangeOrders : TRUE, log |-> << >>,
               types |-> << >>]

\* ImpliedTypeForMessageDesc(desc) up to its call of
\* impliedTypeForMessageDesc
CallDerive ==
    /\ walk.fn = ""
    /\ Len(walk.log) < MaxCalls
    /\ walk' = [walk EXCEPT !.fn = "ImpliedTypeForMessageDesc",
                            !.stack = <<MessageDescFrame(desc, make(walk.heap).p)>>,
                            !.heap = make(walk.heap).h,
                            !.log = Append(@, "ImpliedTypeForMessageDesc")]
    /\ UNCHANGED <<desc, msg, ty, val, back, dec>>

\* FromProtobufMessage(msg) up to its call of fromProtobufMessage
CallEncode ==
    /\ walk.fn = ""
    /\ Len(walk.log) < MaxCalls
    /\ \E ord \in RangeOrders :
            walk' = [walk EXCEPT !.fn = "FromProtobufMessage",
                                 !.stack = <<MessageFrame(msg, make(walk.heap).p)>>,
                                 !.heap = make(walk.heap).h,
                                 !.ord = ord,
                                 !.log = Append(@, "FromProtobufMessage")]
    /\ UNCHANGED <<desc, msg, ty, val, back, dec>>

\* the call in progress takes a step
Walk ==
    /\ walk.stack # << >>
    /\ \E copy \in BOOLEAN : walk' = Step(walk, copy)
    /\ UNCHANGED <<desc, msg, ty, val, back, dec>>

\* got, err := ImpliedTypeForMessageDesc(desc) returns
ReturnDerive ==
    /\ walk.fn = "ImpliedTypeForMessageDesc"
    /\ walk.stack = << >>
    /\ ty' = Resolve(walk.heap, walk.ret)
    /\ walk' = [walk EXCEPT !.fn = "", !.ret = None, !.types = Append(@, ty')]
    /\ UNCHANGED <<desc, msg, val, back, dec>>

\* got, err := FromProtobufMessage(msg) returns
ReturnEncode ==
    /\ walk.fn = "FromProtobufMessage"
    /\ walk.stack = << >>
    /\ val' = Resolve(walk.heap, walk.ret)
    /\ walk' = [walk EXCEPT !.fn = "", !.ret = None]
    /\ UNCHANGED <<desc, msg, ty, back, dec>>

\* err := ToProtobufMessage(got, into), on a value FromProtobufMessage gave
DecodeBetween ==
    /\ walk.fn = ""
    /\ Len(walk.log) < MaxCalls
    /\ val # None
    /\ val.err = Nil
    /\ ~IsPanic(val.v)
    /\ back = None
    /\ \E into \in {New(desc)} :
            back' = [into |-> into, out |-> ToProtobufMessage(val.v, into)]
    /\ walk' = [walk EXCEPT !.log = Append(@, "ToProtobufMessage")]
    /\ UNCHANGED <<desc, msg, ty, val, dec>>

NextWalk ==
    \/ CallDerive
    \/ CallEncode
    \/ Walk
    \/ ReturnDerive
    \/ ReturnEncode
    \/ DecodeBetween

SpecWalk == InitWalk /\ [][NextWalk]_vars

\* a call in progress goes on until it returns
SpecWalkLive ==
    SpecWalk /\ WF_vars(Walk) /\ WF_vars(ReturnDerive) /\ WF_vars(ReturnEncode)


\* C18: every call of ImpliedTypeForMessageDesc on the descriptor returns
\* what the first call returned, the type or the error with its path,
\* whichever calls of the three functions were made before it; it is what
\* the function returns of the descriptor alone.
C18_DeriveIdempotent ==
    \A i \in 1..Len(walk.types) :
        /\ walk.types[i] = walk.types[1]
        /\ walk.types[i] = ImpliedTypeForMessageDesc(desc)

\* derived twice, with an encode between the two
C18_Witness ==
    /\ walk.log = <<"ImpliedTypeForMessageDesc", "FromProtobufMessage",
                    "ImpliedTypeForMessageDesc">>
    /\ Len(walk.types) = 2
    /\ val # None
    /\ val.err = Nil


\* the elements of sequence s
Elems(s) == {s[i] : i \in 1..Len(s)}

\* the error of the call in progress on its way to the caller, as a caller
\* reads it now
ErrorInFlight == Resolve(walk.heap, walk.ret).err

\* C19: the path of the error that a call of ImpliedTypeForMessageDesc or
\* of FromProtobufMessage returns is that of the first field, element or
\* entry that fails, counted from the root by value: the attribute step of
\* each message level and the index step of each list or map level, and no
\* step that an append for an earlier sibling wrote into the shared array.
\* The same holds of the error at every return on its way up the stack,
\* for paths shorter and longer than the capacity of 4.
C19_ErrorPathExact ==
    /\ \A i \in 1..Len(walk.types) :
            walk.types[i].err # Nil =>
                walk.types[i].err = Head(TypeFailures(desc))
    /\ (walk.fn = "" /\ val # None /\ val.err # Nil) =>
            val.err = Head(ValueFailures(msg, << >>, walk.ord))
    /\ (walk.ret # None /\ walk.ret.err # Nil) =>
            IF walk.fn = "ImpliedTypeForMessageDesc"
            THEN ErrorInFlight = Head(TypeFailures(desc))
            ELSE ErrorInFlight = Head(ValueFailures(msg, << >>, walk.ord))

\* an encode returned an error whose path is longer than the capacity and
\* leads through an element of a list that the message holds
C19_Witness ==
    /\ walk.fn = ""
    /\ desc = "Odd"
    /\ val # None
    /\ val.err # Nil
    /\ Len(val.err.path) > PathCap
    /\ val.err.path[2] = IndexStep(NumberIntVal(0))


\* the greatest of a set of naturals, 0 of none
Max(S) == IF S = {} THEN 0 ELSE CHOOSE x \in S : \A y \in S : y <= x

\* the fields of descriptor d that hold messages: the values of the
\* entries for a map
MessageFields(d) ==
    {g \in {IF IsMap(f) THEN ValField(f) ELSE f : f \in FieldsOf(d)} :
        g.kind \in MessageKinds}

\* the messages nested in one another by value from descriptor d down, d
\* included and the entries of maps not counted
RECURSIVE NestingDepth(_)
NestingDepth(d) == 1 + Max({NestingDepth(g.message) : g \in MessageFields(d)})

\* the calls in progress of the two functions that walk a message
MessageCalls ==
    {i \in 1..Len(walk.stack) :
        walk.stack[i].fn \in {"impliedTypeForMessageDesc", "fromProtobufMessage"}}

\* a call of ImpliedTypeForMessageDesc or FromProtobufMessage is in progress
Running == walk.fn # ""

\* C20: every call of ImpliedTypeForMessageDesc and of FromProtobufMessage
\* returns.  While it runs, the calls in progress that walk a message are
\* never more than the messages nested in one another in the descriptor,
\* and the stack holds at most four calls for each of them; this holds too
\* where the encoder calls the deriver for an unset field or an empty
\* collection.
C20_Termination ==
    /\ Running ~> ~Running
    /\ [](/\ Cardinality(MessageCalls) <= NestingDepth(desc)
          /\ Len(walk.stack) <= 4 * NestingDepth(desc))

\* an encode of a message with nothing set returned, having gone as deep
\* through the deriver as the descriptor nests messages
C20_Witness ==
    /\ ~Running
    /\ walk.log = <<"FromProtobufMessage">>
    /\ val # None
    /\ val.err = Nil
    /\ msg = New(desc)
    /\ NestingDepth(desc) >= 3


\* what a second call of FromProtobufMessage on the message can give: one
\* outcome per order in which Range visits the entries of the maps
Outcomes == {FromProtobufMessage(msg, ord) : ord \in RangeOrders}

\* C21 as stated: encoding the message again gives the outcome the first
\* call gave, the same value or the same error with the same path,
\* whatever the order in which the map entries are visited.
C21_SameOutcome == val # None => Outcomes = {val}


\* the index step of an entry of a map: its key is a string or, for a map
\* keyed otherwise, cty.DynamicVal; that of a list element is a number
IsEntryStep(step) == step.step = "Index" /\ step.key.ty # Number

\* errors a and b are those of two entries of one map: their paths are the
\* same up to the index step of an entry
InOneMap(a, b) ==
    \E k \in 1..Len(a.path) :
        /\ k <= Len(b.path)
        /\ SubSeq(a.path, 1, k - 1) = SubSeq(b.path, 1, k - 1)
        /\ IsEntryStep(a.path[k])
        /\ IsEntryStep(b.path[k])

\* C21 as far as it holds: encoding the message again succeeds when the
\* first call succeeded and gives the same value, and fails when the first
\* call failed; the two errors are the same unless they are the errors of
\* two entries of one map, of which each call reports the one it visits
\* first.
C21_SameUpToMapOrder ==
    val # None =>
        \A again \in Outcomes :
            /\ Aborted(again) <=> Aborted(val)
            /\ ~Aborted(val) => again = val
            /\ (again.err # Nil /\ again.err # val.err) => InOneMap(again.err, val.err)

\* encoded and failed: a map keyed by string with two entries of undeclared
\* enum numbers
C21_Witness ==
    /\ EncodeFailed
    /\ desc = "Extra"
    /\ DOMAIN msg.fields["t_map_string_enum"].v = {<<"a">>, <<"b">>}
    /\ \A key \in DOMAIN msg.fields["t_map_string_enum"].v :
            ~HasEnumNumber("Things", msg.fields["t_map_string_enum"].v[key])
    /\ val.err.path \in {<<GetAttrStep("t_map_string_enum"), IndexStep(StringVal(key))>> :
                            key \in {<<"a">>, <<"b">>}}


\* the deriver's switch on the kind gives field a type: it does not fail
\* at the field itself
DeriverTakes(f) ==
    LET r == impliedTypeForFieldKind(f, << >>)
    IN  ~(r.err # Nil /\ r.err.path = << >>)

\* the encoder's switch on the kind converts a value of field: it does not
\* report the kind of the field itself, here on the zero value of an
\* element of the field
EncoderTakes(f) ==
    LET rawV == IF f.kind \in MessageKinds
                THEN New(f.message)
                ELSE ZeroValue([f EXCEPT !.cardinality = "optional"])
        r == fromProtobufFieldKindValue(rawV, f, << >>, AnyOrder)
    IN  ~(/\ r.err # Nil
          /\ r.err.path = << >>
          /\ r.err.format = "no cty equivalent for protobuf kind %s")

\* C22: when the deriver gives a type for the descriptor, the encoder gives
\* a value for the message or fails with InvalidEnumValue and nothing
\* else.  Of every field reachable in any descriptor, the keys and values
\* of maps included, the encoder's switch on the kind takes the field if and
\* only if the deriver's does.
C22_SameKinds ==
    /\ (val # None /\ ImpliedTypeForMessageDesc(desc).err = Nil) =>
            /\ ~IsPanic(val.v)
            /\ val.err # Nil =>
                    val.err.format = "value %d is not part of the enumeration"
    /\ \A e \in SchemaFields(desc, << >>) : EncoderTakes(e.field) <=> DeriverTakes(e.field)

\* derived and encoded: the deriver gave a type, and the encoder failed at
\* an undeclared enum number inside a group
C22_Witness ==
    /\ Derived
    /\ EncodeFailed
    /\ desc = "Deep"
    /\ val.err.path[1] = GetAttrStep("grp")
    /\ val.err.format = "value %d is not part of the enumeration"

====
